---- MODULE Spec2Model ----
(***************************************************************************)
(* Model of the three testing agents of the repository:                    *)
(*   - the script-generating agent (testing-agent-cypress.js,              *)
(*     class UITestingAgent): variables prefixed cy / testResults /        *)
(*     specFiles;                                                          *)
(*   - the direct-driver agent (unnamed/part_002, class UITestingAgent     *)
(*     on Playwright): variables prefixed pw;                              *)
(*   - the route/viewport agent (unnamed/part_000, class                   *)
(*     CypressTestAgent): variables prefixed rt.                           *)
(*                                                                         *)
(* Strings.  A JavaScript string is modelled as a Text: a sequence of      *)
(* atoms, each a non-empty TLA+ string, denoting their concatenation.      *)
(* Strings given by a caller and inspected by the code character by        *)
(* character (selectors, suite names, expected values, file names) are     *)
(* written one character per atom; the literal chunks of a template        *)
(* string are one atom each.  Literals the code compares against input     *)
(* ('select', '.png', '-', '=') are written one character per atom.        *)
(*                                                                         *)
(* Values.  A JavaScript value is a record tagged by its typeof:           *)
(* [t |-> "string", s |-> Text], [t |-> "boolean", b |-> BOOLEAN],         *)
(* [t |-> "number", n |-> Int], [t |-> "undefined"].                       *)
(***************************************************************************)
EXTENDS Integers, Sequences, FiniteSets, TLC

VARIABLES
  \* ---- script-generating agent (src/testing-agent-cypress.js)
  cyDirs,        \* directories that exist in the agent's working directory
  cyFiles,       \* files on disk: a function from path (Text) to content
  testResults,   \* this.testResults: a list, or the engine's result object
  specFiles,     \* this.specFiles
  cyEngine,      \* the calls made to cypress.run: the spec list of each
  cyLast,        \* the last call on the agent and how it ended
  \* ---- direct-driver agent (src/unnamed/part_002)
  pwPage,        \* this.page: "null" before initialize, "page" after
  pwDirs,        \* directories that exist
  pwFiles,       \* files on disk (report.json, report.html)
  pwResults,     \* this.testResults
  pwClock,       \* the clock new Date() reads
  pwLast,        \* the last call on the agent and how it ended
  \* ---- route/viewport agent (src/unnamed/part_000)
  rtBuilt,       \* whether the constructor has run
  rtDirs,        \* directories that exist
  rtFiles,       \* files on disk (generated tests, the report)
  rtShots,       \* the files under screenshotsDir, in getAllFiles order
  rtEngine,      \* the number of `npx cypress run` invocations
  rtObject,      \* arrays hung on the functions every object inherits
  rtLast,        \* the last call on the agent and how it ended
  \* ---- all agents
  calls          \* the number of calls made so far

vars == <<cyDirs, cyFiles, testResults, specFiles, cyEngine, cyLast,
          pwPage, pwDirs, pwFiles, pwResults, pwClock, pwLast,
          rtBuilt, rtDirs, rtFiles, rtShots, rtEngine, rtObject, rtLast, calls>>

cyVars == <<cyDirs, cyFiles, testResults, specFiles, cyEngine, cyLast>>
pwVars == <<pwPage, pwDirs, pwFiles, pwResults, pwClock, pwLast>>
rtVars == <<rtBuilt, rtDirs, rtFiles, rtShots, rtEngine, rtObject, rtLast>>

-----------------------------------------------------------------------------
(* Bounds of the model.                                                    *)

\* Calls made on the agents in one behaviour.
MaxCalls == 3
\* Calls made on the Action Builder in one behaviour.
MaxBuildCalls == 1
\* testElement calls made on the direct-driver agent in one behaviour.
MaxDirectCalls == 2
\* Length of an action list given to buildTestSuite.
MaxActions == 2
\* Number of fields of a form-data mapping.
MaxFields == 3
\* Calls of generateElementTest made in a row in one behaviour.
MaxCompileCalls == 2
\* Number of files in the screenshots directory.
MaxShots == 3
\* Calls made on the route/viewport agent's report in one behaviour.
MaxShotCalls == 2

-----------------------------------------------------------------------------
(* JavaScript values and strings.                                          *)

Undefined == [t |-> "undefined"]
Null == [t |-> "null"]
\* The number NaN (the numbers of the model are otherwise integers).
NaN == [t |-> "NaN"]
Str(s) == [t |-> "string", s |-> s]
Bool(b) == [t |-> "boolean", b |-> b]
Num(n) == [t |-> "number", n |-> n]

\* `${v}` in a template string.
Interpolate(v) ==
  CASE v.t = "string" -> v.s
    [] v.t = "boolean" -> IF v.b THEN <<"true">> ELSE <<"false">>
    [] v.t = "number" -> <<ToString(v.n)>>
    [] v.t = "NaN" -> <<"NaN">>
    [] v.t = "null" -> <<"null">>
    [] OTHER -> <<"undefined">>

\* a === b.
StrictEquals(a, b) ==
  /\ a.t = b.t
  /\ CASE a.t = "string" -> a.s = b.s
       [] a.t = "boolean" -> a.b = b.b
       [] a.t = "number" -> a.n = b.n
       [] a.t = "NaN" -> FALSE
       [] OTHER -> TRUE

\* Whether v is truthy.
Truthy(v) ==
  CASE v.t = "string" -> v.s # <<>>
    [] v.t = "boolean" -> v.b
    [] v.t = "number" -> v.n # 0
    [] OTHER -> FALSE

\* A result of a call: a returned value or a thrown error.
Returned(v) == [threw |-> FALSE, value |-> v]
Threw(name, message) == [threw |-> TRUE, name |-> name, message |-> message]

\* String.prototype.split(sep) for a one-character separator.
RECURSIVE SplitFrom(_, _, _, _, _)
SplitFrom(s, sep, i, cur, acc) ==
  IF i > Len(s) THEN Append(acc, cur)
  ELSE IF s[i] = sep THEN SplitFrom(s, sep, i + 1, <<>>, Append(acc, cur))
  ELSE SplitFrom(s, sep, i + 1, Append(cur, s[i]), acc)

Split(s, sep) == SplitFrom(s, sep, 1, <<>>, <<>>)

\* const [a, b] = parts: the k-th element, undefined past the end.
Destructure(parts, k) == IF k <= Len(parts) THEN Str(parts[k]) ELSE Undefined

\* String.prototype.includes / startsWith / endsWith.
Includes(s, pat) ==
  \E i \in 0..(Len(s) - Len(pat)) : SubSeq(s, i + 1, i + Len(pat)) = pat

StartsWith(s, pat) == Len(s) >= Len(pat) /\ SubSeq(s, 1, Len(pat)) = pat

EndsWith(s, pat) ==
  Len(s) >= Len(pat) /\ SubSeq(s, Len(s) - Len(pat) + 1, Len(s)) = pat

\* Array.prototype.join.
RECURSIVE Join(_, _)
Join(list, sep) ==
  IF list = <<>> THEN <<>>
  ELSE IF Len(list) = 1 THEN list[1]
  ELSE list[1] \o sep \o Join(Tail(list), sep)

\* Sequences over S of length at most n.
SeqsUpTo(S, n) == UNION {[1..k -> S] : k \in 0..n}

\* The concatenation of a list of lists (map(...).join('') of texts).
RECURSIVE Flatten(_)
Flatten(lists) ==
  IF lists = <<>> THEN <<>> ELSE Head(lists) \o Flatten(Tail(lists))

\* /\s/ over the characters the model uses.
IsWhitespace(c) == c \in {" ", "\t", "\n"}

\* String.prototype.replace(/\s+/g, '_').
RECURSIVE ReplaceWhitespaceRuns(_, _)
ReplaceWhitespaceRuns(s, inRun) ==
  IF s = <<>> THEN <<>>
  ELSE IF IsWhitespace(Head(s))
       THEN (IF inRun THEN <<>> ELSE <<"_">>) \o ReplaceWhitespaceRuns(Tail(s), TRUE)
       ELSE <<Head(s)>> \o ReplaceWhitespaceRuns(Tail(s), FALSE)

UpperCase == <<"A", "B", "C", "D", "E", "F", "G", "H", "I", "J", "K", "L", "M",
               "N", "O", "P", "Q", "R", "S", "T", "U", "V", "W", "X", "Y", "Z">>
LowerCase == <<"a", "b", "c", "d", "e", "f", "g", "h", "i", "j", "k", "l", "m",
               "n", "o", "p", "q", "r", "s", "t", "u", "v", "w", "x", "y", "z">>

LowerChar(c) ==
  IF \E i \in 1..Len(UpperCase) : UpperCase[i] = c
  THEN LowerCase[CHOOSE i \in 1..Len(UpperCase) : UpperCase[i] = c]
  ELSE c

\* String.prototype.toLowerCase.
ToLowerCase(s) == [i \in 1..Len(s) |-> LowerChar(s[i])]

\* The index of the last "/" of a path, 0 when it has none.
LastSlash(path) ==
  IF \E i \in 1..Len(path) : path[i] = "/"
  THEN CHOOSE i \in 1..Len(path) :
         path[i] = "/" /\ \A j \in (i + 1)..Len(path) : path[j] # "/"
  ELSE 0

\* path.basename(path), for a path that does not end in "/".
Basename(path) == SubSeq(path, LastSlash(path) + 1, Len(path))

\* path.basename(path, ext): the extension is dropped when the base name
\* ends with it and is longer than it.
BasenameExt(path, ext) ==
  LET base == Basename(path)
  IN IF Len(base) > Len(ext) /\ EndsWith(base, ext)
     THEN SubSeq(base, 1, Len(base) - Len(ext))
     ELSE base

\* Math.round((passed / total) * 100): 0 / 0 is NaN; halves round up.
PercentRounded(passed, total) ==
  IF total = 0 THEN NaN
  ELSE Num((200 * passed + total) \div (2 * total))

\* `${ms / 1000}`: the seconds, with the fraction's trailing zeros dropped.
Seconds(ms) ==
  LET whole == ms \div 1000
      f == ms % 1000
      a == ToString(f \div 100)
      b == ToString((f \div 10) % 10)
      c == ToString(f % 10)
  IN IF f = 0 THEN <<ToString(whole)>>
     ELSE IF f % 10 # 0 THEN <<ToString(whole), ".", a, b, c>>
     ELSE IF f % 100 # 0 THEN <<ToString(whole), ".", a, b>>
     ELSE <<ToString(whole), ".", a>>

\* files with content written at path.
WithFile(files, path, content) ==
  [p \in DOMAIN files \cup {path} |-> IF p = path THEN content ELSE files[p]]

\* An object or an array as JSON.stringify walks it: the properties of an
\* object in their order, each with its value; the elements of an array.
ObjectOf(members) == [t |-> "object", members |-> members]

\* JSON.stringify(value, null, 2), the line breaks and the indentation left
\* out: a string between quotes with its quotes and backslashes escaped, a
\* number by its digits, NaN as null, the properties of an object whose
\* value is undefined not written, an undefined element of an array as null.
RECURSIVE Stringify(_)
Stringify(v) ==
  LET RECURSIVE Digits(_)
      Digits(n) ==
        (IF n >= 10 THEN Digits(n \div 10) ELSE <<>>)
          \o <<SubSeq(<<"0", "1", "2", "3", "4", "5", "6", "7", "8", "9">>,
                      (n % 10) + 1, (n % 10) + 1)[1]>>
      Quoted(s) ==
        <<"\"">>
          \o Flatten([k \in 1..Len(s) |->
                        IF s[k] \in {"\"", "\\"} THEN <<"\\", s[k]>> ELSE <<s[k]>>])
          \o <<"\"">>
      written == IF v.t = "object"
                 THEN SelectSeq(v.members, LAMBDA m : m.value.t # "undefined")
                 ELSE <<>>
  IN CASE v.t = "string" -> Quoted(v.s)
       [] v.t = "number" ->
            IF v.n < 0 THEN <<"-">> \o Digits(-v.n) ELSE Digits(v.n)
       [] v.t = "boolean" -> IF v.b THEN <<"true">> ELSE <<"false">>
       [] v.t = "array" ->
            <<"[">> \o Join([k \in 1..Len(v.items) |-> Stringify(v.items[k])],
                            <<",">>) \o <<"]">>
       [] v.t = "object" ->
            <<"{">> \o Join([k \in 1..Len(written) |->
                               Quoted(written[k].key) \o <<":">>
                                 \o Stringify(written[k].value)],
                            <<",">>) \o <<"}">>
       [] OTHER -> <<"null">>

-----------------------------------------------------------------------------
(* The script-generating agent: the Action Builder.                        *)

\* config.baseUrl of the agent.
baseUrl == <<"https://example.com">>

\* Mutant of UnknownTestType: the kind is skipped instead of refused.
UnknownTestTypeIgnored(testType) == Returned(<<>>)

\* The default branch of the switch of generateElementTest.
UnknownTestType(testType) ==
  Threw("Error", <<"Unknown test type: ", testType>>)

\* The switch of generateElementTest: the statement for one assertion, or
\* the error thrown while building it.
ElementStatement(selector, testType, expectedValue) ==
  LET get == <<"cy.get('">> \o selector
      \* expectedValue.split('='): a TypeError unless expectedValue is a string
      canSplit == expectedValue.t = "string"
      parts == IF canSplit THEN Split(expectedValue.s, "=") ELSE <<>>
      first == Interpolate(Destructure(parts, 1))
      second == Interpolate(Destructure(parts, 2))
      splitError ==
        Threw("TypeError",
              IF expectedValue.t = "undefined"
              THEN <<"Cannot read properties of undefined (reading 'split')">>
              ELSE <<"expectedValue.split is not a function">>)
  IN CASE testType = "exists" ->
            Returned(get \o <<"').should('exist')">>)
       [] testType = "text" ->
            Returned(get \o <<"').should('have.text', '">>
                         \o Interpolate(expectedValue) \o <<"')">>)
       [] testType = "attribute" ->
            IF canSplit
            THEN Returned(get \o <<"').should('have.attr', '">> \o first
                              \o <<"', '">> \o second \o <<"')">>)
            ELSE splitError
       [] testType = "clickable" ->
            Returned(get \o <<"').click()">>)
       [] testType = "visible" ->
            Returned(get \o <<"').should('be.visible')">>)
       [] testType = "count" ->
            Returned(get \o <<"').should('have.length', ">>
                         \o Interpolate(expectedValue) \o <<")">>)
       [] testType = "containsText" ->
            Returned(get \o <<"').should('contain', '">>
                         \o Interpolate(expectedValue) \o <<"')">>)
       [] testType = "cssProperty" ->
            IF canSplit
            THEN Returned(get \o <<"').should('have.css', '">> \o first
                              \o <<"', '">> \o second \o <<"')">>)
            ELSE splitError
       [] OTHER -> UnknownTestType(testType)

\* this.testResults when it is the list the constructor made.
ArrayOf(items) == [kind |-> "array", items |-> items]

\* Mutant of generateElementTest: the statement carries the number of the
\* records made before it.
generateElementTestNumbered(tr, selector, testType, expectedValue) ==
  LET stmt == ElementStatement(selector, testType, expectedValue)
      text == stmt.value \o <<" // ", ToString(Len(tr.items))>>
  IN IF stmt.threw THEN [result |-> stmt, testResults |-> tr]
     ELSE [result |-> Returned(text),
           testResults |->
             ArrayOf(Append(tr.items,
                            [selector |-> selector, testType |-> testType,
                             expected |-> expectedValue, testAction |-> text]))]

\* generateElementTest on an agent whose testResults is tr: the result of the
\* call and the testResults it leaves.
generateElementTest(tr, selector, testType, expectedValue) ==
  LET stmt == ElementStatement(selector, testType, expectedValue)
  IN IF stmt.threw THEN [result |-> stmt, testResults |-> tr]
     ELSE IF tr.kind # "array"
     THEN [result |-> Threw("TypeError", <<"this.testResults.push is not a function">>),
           testResults |-> tr]
     ELSE [result |-> stmt,
           testResults |->
             ArrayOf(Append(tr.items,
                            [selector |-> selector, testType |-> testType,
                             expected |-> expectedValue,
                             testAction |-> stmt.value]))]

generateNavigationAction(url) ==
  LET fullUrl == IF StartsWith(url, <<"h", "t", "t", "p">>) THEN url
                 ELSE baseUrl \o url
  IN <<"cy.visit('">> \o url \o <<"')">>

\* Mutant of FieldControl: the selector is looked at before the value.
FieldControlSelectorFirst(selector, value) ==
  IF Includes(selector, <<"s", "e", "l", "e", "c", "t">>) THEN "select"
  ELSE IF value.t = "boolean" THEN (IF value.b THEN "check" ELSE "uncheck")
  ELSE "type"

\* The branch generateFormFillAction takes for one entry of the mapping.
FieldControl(selector, value) ==
  IF value.t = "boolean" THEN (IF value.b THEN "check" ELSE "uncheck")
  ELSE IF Includes(selector, <<"s", "e", "l", "e", "c", "t">>) THEN "select"
  ELSE "type"

\* The statement generateFormFillAction pushes for one entry of the mapping.
FormFieldStatement(selector, value) ==
  LET control == FieldControl(selector, value)
  IN CASE control = "check" -> <<"cy.get('">> \o selector \o <<"').check()">>
       [] control = "uncheck" -> <<"cy.get('">> \o selector \o <<"').uncheck()">>
       [] control = "select" ->
            <<"cy.get('">> \o selector \o <<"').select('">>
              \o Interpolate(value) \o <<"')">>
       [] OTHER ->
            <<"cy.get('">> \o selector \o <<"').clear().type('">>
              \o Interpolate(value) \o <<"')">>

\* formData is given as Object.entries(formData): the entries in the
\* mapping's iteration order.
RECURSIVE FormFillFrom(_, _, _)
FormFillFrom(formData, i, actions) ==
  IF i > Len(formData) THEN actions
  ELSE FormFillFrom(formData, i + 1,
         Append(actions,
                FormFieldStatement(formData[i].selector, formData[i].value)))

generateFormFillAction(formData) == FormFillFrom(formData, 1, <<>>)

generateScreenshotAction(name) == <<"cy.screenshot('">> \o name \o <<"')">>

\* Mutant of Push: the statement is put in front.
PushFront(testActions, item) == <<item>> \o testActions

\* testActions.push(item).
Push(testActions, item) == Append(testActions, item)

\* testActions.push(...items).
PushAll(testActions, items) == testActions \o items

\* The loop of buildTestSuite from action i on.  `starts` records, for every
\* action the loop has handled, the length of testActions before it.
RECURSIVE BuildLoop(_, _, _, _, _)
BuildLoop(actions, i, testActions, tr, starts) ==
  IF i > Len(actions)
  THEN [result |-> Returned(testActions), testResults |-> tr, starts |-> starts]
  ELSE
    LET action == actions[i]
        here == Append(starts, Len(testActions))
    IN CASE action.type = "navigate" ->
              BuildLoop(actions, i + 1,
                        Push(testActions, generateNavigationAction(action.url)),
                        tr, here)
         [] action.type = "testElement" ->
              LET g == generateElementTest(tr, action.selector, action.testType,
                                           action.expectedValue)
              IN IF g.result.threw
                 THEN [result |-> g.result, testResults |-> g.testResults,
                       starts |-> starts]
                 ELSE BuildLoop(actions, i + 1, Push(testActions, g.result.value),
                                g.testResults, here)
         [] action.type = "fillForm" ->
              BuildLoop(actions, i + 1,
                        PushAll(testActions, generateFormFillAction(action.formData)),
                        tr, here)
         [] action.type = "screenshot" ->
              BuildLoop(actions, i + 1,
                        Push(testActions, generateScreenshotAction(action.name)),
                        tr, here)
         [] action.type = "wait" ->
              BuildLoop(actions, i + 1,
                        Push(testActions,
                             <<"cy.wait(">> \o Interpolate(action.milliseconds)
                               \o <<")">>),
                        tr, here)
         [] OTHER -> BuildLoop(actions, i + 1, testActions, tr, here)

-----------------------------------------------------------------------------
(* The script-generating agent: the Script Assembler.                      *)

E2eDir == "./cypress/e2e"

\* Mutant of specFileName: every whitespace character becomes an underscore.
specFileNamePerCharacter(testName) ==
  [k \in 1..Len(testName) |->
     IF IsWhitespace(testName[k]) THEN "_" ELSE LowerChar(testName[k])]
    \o <<".cy.js">>

\* `${testName.replace(/\s+/g, '_').toLowerCase()}.cy.js`.
specFileName(testName) ==
  ToLowerCase(ReplaceWhitespaceRuns(testName, FALSE)) \o <<".cy.js">>

specFilePath(testName) == <<"./cypress/e2e/">> \o specFileName(testName)

testContent(testName, testActions) ==
  <<"describe('">> \o testName
    \o <<"', () => { it('performs UI testing', () => { ">>
    \o Join(testActions, <<"\n        ">>) \o <<" }) })">>

\* fs.writeFileSync(path, content) with the file's parent directory dir: the
\* result and the files it leaves.
writeFileSync(dirs, files, dir, path, content) ==
  IF dir \in dirs
  THEN [result |-> Returned(path),
        files |-> WithFile(files, path, content)]
  ELSE [result |-> Threw("Error", <<"ENOENT: no such file or directory, open '">>
                                    \o path \o <<"'">>),
        files |-> files]

\* Mutant of createTest: a path specFiles already holds is not pushed again.
createTestOnce(dirs, files, specs, testName, testActions) ==
  LET path == <<"./cypress/e2e/">> \o ToLowerCase(ReplaceWhitespaceRuns(testName, FALSE))
                \o <<".cy.js">>
      w == writeFileSync(dirs, files, E2eDir, path,
                         testContent(testName, testActions))
  IN [result |-> w.result, files |-> w.files,
      specFiles |-> IF w.result.threw \/ \E k \in 1..Len(specs) : specs[k] = path
                    THEN specs ELSE Append(specs, path)]

\* createTest: the result of the call, and the files and specFiles it leaves.
createTest(dirs, files, specs, testName, testActions) ==
  LET path == specFilePath(testName)
      w == writeFileSync(dirs, files, E2eDir, path,
                         testContent(testName, testActions))
  IN [result |-> w.result, files |-> w.files,
      specFiles |-> IF w.result.threw THEN specs ELSE Append(specs, path)]

-----------------------------------------------------------------------------
(* Inputs.                                                                 *)

\* The selectors, values, urls, names and statements the calls are made with.
arg ==
  [sel_h1 |-> <<"h", "1">>,
   sel_a |-> <<"a">>,
   sel_subscribe |-> <<"#", "s", "u", "b", "s", "c", "r", "i", "b", "e">>,
   sel_country |->
     <<"#", "c", "o", "u", "n", "t", "r", "y", " ", "s", "e", "l", "e", "c", "t">>,
   sel_name |-> <<"#", "n", "a", "m", "e">>,
   txt_US |-> <<"U", "S">>,
   txt_Alice |-> <<"A", "l", "i", "c", "e">>,
   txt_Hi |-> <<"H", "i">>,
   txt_href |-> <<"h", "r", "e", "f", "=", "/", "a">>,
   txt_href_query |->
     <<"h", "r", "e", "f", "=", "/", "a", "?", "x", "=", "1">>,
   txt_Example |->
     <<"E", "x", "a", "m", "p", "l", "e", " ", "D", "o", "m", "a", "i", "n">>,
   txt_query |-> <<"/", "a", "?", "x", "=", "1">>,
   url_root |-> <<"/">>,
   url_http |-> <<"h", "t", "t", "p", ":", "/", "/", "a">>,
   name_homepage |-> <<"h", "o", "m", "e", "p", "a", "g", "e">>,
   suite_Example |->
     <<"E", "x", "a", "m", "p", "l", "e", " ", "T", "e", "s", "t">>,
   suite_example_spaced |->
     <<"e", "x", "a", "m", "p", "l", "e", " ", "\t", "t", "e", "s", "t">>,
   stmt_exists |-> <<"cy.get('h1').should('exist')">>]

SupportedKinds == {"exists", "text", "attribute", "clickable", "visible",
                   "count", "containsText", "cssProperty"}

\* The convenience methods that build Action records.
navigateTo(url) == [type |-> "navigate", url |-> url]
testElement(selector, testType, expectedValue) ==
  [type |-> "testElement", selector |-> selector, testType |-> testType,
   expectedValue |-> expectedValue]
fillForm(formData) == [type |-> "fillForm", formData |-> formData]
captureScreenshot(name) == [type |-> "screenshot", name |-> name]
wait(milliseconds) == [type |-> "wait", milliseconds |-> milliseconds]

\* One entry of a form-data mapping.
Field(selector, value) == [selector |-> selector, value |-> value]

\* The entries a form-data mapping is drawn from.
FieldPool ==
  {Field(s, v) : s \in {arg.sel_subscribe, arg.sel_country, arg.sel_name},
                 v \in {Bool(TRUE), Bool(FALSE), Str(arg.txt_US), Str(arg.txt_Alice)}}

\* Object.entries of the mappings of at most MaxFields fields: the keys of a
\* mapping are distinct.
FormDatas ==
  {fd \in SeqsUpTo(FieldPool, MaxFields) :
     \A i, j \in 1..Len(fd) : i # j => fd[i].selector # fd[j].selector}

\* The actions an action list is drawn from; the last has a type
\* buildTestSuite has no branch for.
ActionPool ==
  {navigateTo(arg.url_root),
   navigateTo(arg.url_http),
   testElement(arg.sel_h1, "text", Str(arg.txt_Hi)),
   testElement(arg.sel_a, "hover", Undefined),
   fillForm(<<Field(arg.sel_subscribe, Bool(TRUE)), Field(arg.sel_name, Str(arg.txt_Alice))>>),
   captureScreenshot(arg.name_homepage),
   wait(Num(500)),
   [type |-> "scroll"]}

ActionLists == SeqsUpTo(ActionPool, MaxActions)

\* The assertion kinds, selectors and expected values of direct calls.
TestTypes == SupportedKinds \cup {"hover", "focus"}
ExpectedValues == {Undefined, Str(arg.txt_Hi), Str(arg.txt_href), Num(3)}

-----------------------------------------------------------------------------
(* The script-generating agent: its operations.                            *)

CyInit ==
  /\ cyDirs = {}
  /\ cyFiles = <<>>
  /\ testResults = ArrayOf(<<>>)
  /\ specFiles = <<>>
  /\ cyEngine = <<>>
  /\ cyLast = [op |-> "constructor"]

\* config.outputDir of the agent.
outputDir == "./cypress/results"

ConfigPath == <<"./cypress.config.js">>

\* The content initialize writes to cypress.config.js.
configContent ==
  <<"defineConfig({ e2e: { baseUrl: '">> \o baseUrl
    \o <<"', video: true, screenshotOnRunFailure: true, reporter: 'junit', ">>
    \o <<"reporterOptions: { mochaFile: '", outputDir, "/results-[hash].xml', ">>
    \o <<"toConsole: true } } })">>

\* initialize: fs.mkdirSync(dir, {recursive: true}) of each directory that
\* does not exist, then cypress.config.js unless it exists.
CyInitialize ==
  /\ cyDirs' = cyDirs \cup {"./cypress", E2eDir, "./cypress/screenshots",
                            "./cypress/videos", outputDir}
  /\ cyFiles' = IF ConfigPath \in DOMAIN cyFiles THEN cyFiles
                ELSE WithFile(cyFiles, ConfigPath, configContent)
  /\ cyLast' = [op |-> "initialize", result |-> Returned(<<>>)]
  /\ UNCHANGED <<testResults, specFiles, cyEngine, pwVars, rtVars, calls>>

CyGenerateElementTest(selector, testType, expectedValue) ==
  LET g == generateElementTest(testResults, selector, testType, expectedValue)
  IN /\ testResults' = g.testResults
     /\ cyLast' = [op |-> "generateElementTest", selector |-> selector,
                   testType |-> testType, expectedValue |-> expectedValue,
                   result |-> g.result]
     /\ calls' = calls + 1
     /\ UNCHANGED <<cyDirs, cyFiles, specFiles, cyEngine, pwVars, rtVars>>

CyGenerateFormFillAction(formData) ==
  /\ cyLast' = [op |-> "generateFormFillAction", formData |-> formData,
                result |-> Returned(generateFormFillAction(formData))]
  /\ calls' = calls + 1
  /\ UNCHANGED <<cyDirs, cyFiles, testResults, specFiles, cyEngine, pwVars, rtVars>>

\* createTest as an operation of the agent; cyLast keeps in `previous` what
\* the file held before the call.
CyCreateTest(testName, testActions) ==
  LET c == createTest(cyDirs, cyFiles, specFiles, testName, testActions)
  IN /\ cyFiles' = c.files
     /\ specFiles' = c.specFiles
     /\ cyLast' = [op |-> "createTest", testName |-> testName,
                   testActions |-> testActions, result |-> c.result,
                   previous |-> IF specFilePath(testName) \in DOMAIN cyFiles
                                THEN <<cyFiles[specFilePath(testName)]>>
                                ELSE <<>>]
     /\ calls' = calls + 1
     /\ UNCHANGED <<cyDirs, testResults, cyEngine, pwVars, rtVars>>

\* buildTestSuite: the loop, then createTest unless the loop threw.  cyLast
\* keeps what the loop handed to createTest (`created`, `handed`) and the
\* actions it handled (`starts`).
CyBuildTestSuite(suiteName, actions) ==
  LET b == BuildLoop(actions, 1, <<>>, testResults, <<>>)
      c == createTest(cyDirs, cyFiles, specFiles, suiteName, b.result.value)
  IN /\ testResults' = b.testResults
     /\ IF b.result.threw
        THEN /\ cyLast' = [op |-> "buildTestSuite", suiteName |-> suiteName,
                           actions |-> actions, result |-> b.result,
                           created |-> FALSE, handed |-> <<>>,
                           starts |-> b.starts]
             /\ UNCHANGED <<cyFiles, specFiles>>
        ELSE /\ cyLast' = [op |-> "buildTestSuite", suiteName |-> suiteName,
                           actions |-> actions, result |-> c.result,
                           created |-> TRUE, handed |-> b.result.value,
                           starts |-> b.starts]
             /\ cyFiles' = c.files
             /\ specFiles' = c.specFiles
     /\ calls' = calls + 1
     /\ UNCHANGED <<cyDirs, cyEngine, pwVars, rtVars>>

-----------------------------------------------------------------------------
(* The script-generating agent: running the suites and the report.         *)

\* One run (one spec file) of the object cypress.run resolves with.
RunOf(name, tests, passes, failures, duration, video, screenshots) ==
  [spec |-> name, tests |-> tests, passes |-> passes, failures |-> failures,
   duration |-> duration, video |-> video, screenshots |-> screenshots]

\* The object cypress.run resolves with: a run result (runs and totals), or
\* a failed-run result (a status and a message, no runs).
RunResults(runs, totalTests, totalPassed, totalFailed) ==
  [kind |-> "results", hasRuns |-> TRUE, runs |-> runs,
   totalTests |-> totalTests, totalPassed |-> totalPassed,
   totalFailed |-> totalFailed, message |-> <<>>]

\* Mutant of FailedRunResult: the failed run comes with an empty list of runs.
FailedRunResultWithRuns(message) ==
  [kind |-> "results", hasRuns |-> TRUE, runs |-> <<>>,
   totalTests |-> Undefined, totalPassed |-> Undefined,
   totalFailed |-> Undefined, message |-> message]

FailedRunResult(message) ==
  [kind |-> "results", hasRuns |-> FALSE, runs |-> <<>>,
   totalTests |-> Undefined, totalPassed |-> Undefined,
   totalFailed |-> Undefined, message |-> message]

\* The spec name, the video path and the screenshot path of a run.
runText ==
  [spec_example |->
     <<"e", "x", "a", "m", "p", "l", "e", "_", "t", "e", "s", "t", ".", "c", "y", ".", "j", "s">>,
   video_example |->
     <<"c", "y", "p", "r", "e", "s", "s", "/", "v", "i", "d", "e", "o", "s", "/", "e", "x", "a", "m", "p", "l", "e", "_", "t", "e", "s", "t", ".", "c", "y", ".", "j", "s", ".", "m", "p", "4">>,
   shot_homepage |->
     <<"c", "y", "p", "r", "e", "s", "s", "/", "s", "c", "r", "e", "e", "n", "s", "h", "o", "t", "s", "/", "h", "o", "m", "e", "p", "a", "g", "e", ".", "p", "n", "g">>]

\* The results the engine may resolve with.
EngineResults ==
  {RunResults(<<RunOf(runText.spec_example, 1, 1, 0, 2000, Str(runText.video_example),
                      <<[name |-> arg.name_homepage, path |-> runText.shot_homepage]>>)>>,
              Num(1), Num(1), Num(0)),
   RunResults(<<RunOf(runText.spec_example, 2, 1, 1, 1500, Null, <<>>)>>,
              Num(2), Num(1), Num(1)),
   RunResults(<<>>, Num(0), Num(0), Num(0)),
   RunResults(<<>>, Undefined, Undefined, Undefined),
   FailedRunResult(<<"Could not find a Cypress configuration file">>)}

\* The errors cypress.run may reject with.
EngineErrors == {<<"Cypress verification timed out">>}

\* runTests when cypress.run resolves with results: one call of the engine
\* with this.specFiles; the results replace this.testResults.
CyRunTestsResolved(results) ==
  /\ cyEngine' = Append(cyEngine, specFiles)
  /\ testResults' = results
  /\ cyLast' = [op |-> "runTests", engineFailed |-> FALSE,
                engineMessage |-> <<>>, result |-> Returned(results)]
  /\ calls' = calls + 1
  /\ UNCHANGED <<cyDirs, cyFiles, specFiles, pwVars, rtVars>>

\* runTests when cypress.run rejects with an error: the promise is rejected
\* with that error.
CyRunTestsRejected(message) ==
  /\ cyEngine' = Append(cyEngine, specFiles)
  /\ cyLast' = [op |-> "runTests", engineFailed |-> TRUE,
                engineMessage |-> message, result |-> Threw("Error", message)]
  /\ calls' = calls + 1
  /\ UNCHANGED <<cyDirs, cyFiles, testResults, specFiles, pwVars, rtVars>>

\* x || 0 for a total of the results.
OrZero(v) == IF Truthy(v) THEN v.n ELSE 0

\* Mutant of cyPassRate: the ratio is not scaled to a percentage.
cyPassRateUnscaled(passedTests, totalTests) ==
  IF totalTests > 0 THEN Num(passedTests \div totalTests) ELSE Num(0)

\* totalTests > 0 ? Math.round((passedTests / totalTests) * 100) : 0.
cyPassRate(passedTests, totalTests) ==
  IF totalTests > 0 THEN PercentRounded(passedTests, totalTests) ELSE Num(0)

\* The row of the results table for one run.
RunRow(run) ==
  <<"<tr class='", IF run.failures > 0 THEN "test-failed" ELSE "", "'><td>">>
    \o run.spec \o <<"</td><td>", ToString(run.tests), "</td><td>",
                     ToString(run.passes), "</td><td>",
                     ToString(run.failures), "</td><td>">>
    \o Seconds(run.duration) \o <<"s</td></tr>">>

\* The entry of the video list for one run: none when the run has no video.
VideoItem(run) ==
  IF Truthy(run.video)
  THEN <<"<li><a href='./videos/">> \o Basename(run.video.s) \o <<"'>">>
         \o run.spec \o <<" Video</a></li>">>
  ELSE <<>>

ScreenshotItem(shot) ==
  <<"<li><a href='./screenshots/">> \o Basename(shot.path) \o <<"'>">>
    \o shot.name \o <<"</a></li>">>

\* The entries of the screenshot list for one run.
ScreenshotItems(run) ==
  Flatten([k \in 1..Len(run.screenshots) |-> ScreenshotItem(run.screenshots[k])])

\* The HTML report of the script-generating agent.
cyHtmlReport(results) ==
  LET totalTests == OrZero(results.totalTests)
      passedTests == OrZero(results.totalPassed)
      failedTests == OrZero(results.totalFailed)
  IN <<"<h1>UI Test Results</h1>", "Passed: ", ToString(passedTests), " / ",
       ToString(totalTests), "Failed: ", ToString(failedTests), " / ",
       ToString(totalTests), "Pass Rate: ">>
       \o Interpolate(cyPassRate(passedTests, totalTests)) \o <<"%">>
       \o <<"<table>">>
       \o Flatten([k \in 1..Len(results.runs) |-> RunRow(results.runs[k])])
       \o <<"</table>", "<h2>Test Videos</h2>">>
       \o Flatten([k \in 1..Len(results.runs) |-> VideoItem(results.runs[k])])
       \o <<"<h2>Test Screenshots</h2>">>
       \o Flatten([k \in 1..Len(results.runs) |-> ScreenshotItems(results.runs[k])])

\* Mutant of cyResultsObject: the totals are not written.
cyResultsObjectRunsOnly(results) ==
  ObjectOf(<<[key |-> <<"runs">>, value |-> [t |-> "array", items |-> <<>>]]>>)

\* this.testResults, the object cypress.run resolved with, as its properties:
\* the totals that are there, then the runs.
cyResultsObject(results) ==
  LET RunObject(run) ==
        ObjectOf(<<
          [key |-> <<"spec">>,
           value |-> ObjectOf(<<[key |-> <<"name">>, value |-> Str(run.spec)]>>)],
          [key |-> <<"stats">>,
           value |-> ObjectOf(<<[key |-> <<"tests">>, value |-> Num(run.tests)],
                                [key |-> <<"passes">>, value |-> Num(run.passes)],
                                [key |-> <<"failures">>, value |-> Num(run.failures)],
                                [key |-> <<"duration">>, value |-> Num(run.duration)]>>)],
          [key |-> <<"video">>, value |-> run.video],
          [key |-> <<"screenshots">>,
           value |-> [t |-> "array",
                      items |-> [k \in 1..Len(run.screenshots) |->
                                   ObjectOf(<<[key |-> <<"name">>,
                                               value |-> Str(run.screenshots[k].name)],
                                              [key |-> <<"path">>,
                                               value |-> Str(run.screenshots[k].path)]>>)]]]>>)
  IN ObjectOf(<<[key |-> <<"totalTests">>, value |-> results.totalTests],
                [key |-> <<"totalPassed">>, value |-> results.totalPassed],
                [key |-> <<"totalFailed">>, value |-> results.totalFailed],
                [key |-> <<"runs">>,
                 value |-> [t |-> "array",
                            items |-> [k \in 1..Len(results.runs) |->
                                         RunObject(results.runs[k])]]]>>)

cyReportJson == <<"cypress/results/report.json">>
cyReportHtml == <<"cypress/results/report.html">>

\* generateReport: nothing unless testResults has runs; else report.json (the
\* results as JSON), then report.html.
CyGenerateReport ==
  /\ IF testResults.kind = "array" \/ ~testResults.hasRuns
     THEN /\ cyLast' = [op |-> "generateReport", written |-> FALSE,
                        result |-> Returned(<<>>)]
          /\ UNCHANGED cyFiles
     ELSE IF outputDir \notin cyDirs
     THEN /\ cyLast' = [op |-> "generateReport", written |-> FALSE,
                        result |-> Threw("Error",
                          <<"ENOENT: no such file or directory, open '">>
                            \o cyReportJson \o <<"'">>)]
          /\ UNCHANGED cyFiles
     ELSE /\ cyFiles' = WithFile(WithFile(cyFiles, cyReportJson,
                                          Stringify(cyResultsObject(testResults))),
                                 cyReportHtml, cyHtmlReport(testResults))
          /\ cyLast' = [op |-> "generateReport", written |-> TRUE,
                        result |-> Returned(<<>>)]
  /\ calls' = calls + 1
  /\ UNCHANGED <<cyDirs, testResults, specFiles, cyEngine, pwVars, rtVars>>

SupportDir == "./cypress/support"
SupportFile == <<"./cypress/support/e2e.js">>

a11ySpecFilePath(testName) ==
  <<"./cypress/e2e/">> \o ToLowerCase(ReplaceWhitespaceRuns(testName, FALSE))
    \o <<"_a11y.cy.js">>

a11yTestContent(testName) ==
  <<"describe('">> \o testName
    \o <<" Accessibility', () => { it('checks accessibility', () => { ",
         "cy.visit('/'); cy.injectAxe(); cy.checkA11y(); }) })">>

\* generateAccessibilityTest: the support directory and file, then the spec
\* file; the outcome of the npm command is ignored.
CyGenerateAccessibilityTest(testName) ==
  LET dirs == cyDirs \cup {"./cypress", SupportDir}
      withSupport ==
        IF SupportFile \in DOMAIN cyFiles THEN cyFiles
        ELSE WithFile(cyFiles, SupportFile, <<"import 'cypress-axe';">>)
      path == a11ySpecFilePath(testName)
      w == writeFileSync(dirs, withSupport, E2eDir, path,
                         a11yTestContent(testName))
  IN /\ cyDirs' = dirs
     /\ cyFiles' = w.files
     /\ specFiles' = IF w.result.threw THEN specFiles
                     ELSE Append(specFiles, path)
     /\ cyLast' = [op |-> "generateAccessibilityTest", testName |-> testName,
                   result |-> w.result]
     /\ calls' = calls + 1
     /\ UNCHANGED <<testResults, cyEngine, pwVars, rtVars>>

-----------------------------------------------------------------------------
(* The direct-driver agent.                                                *)

\* config.outputDir of the direct-driver agent.
pwOutputDir == "./test-results"

\* error.message of the errors the engine raises.
TimeoutMessage == <<"Timeout 5000ms exceeded.">>
ClickMessage == <<"Element is not attached to the DOM">>
NullPageMessage == <<"Cannot read properties of null (reading 'waitForSelector')">>

\* What the browser answers during one testElement call: whether
\* waitForSelector and click resolve, what isVisible returns and what
\* textContent / getAttribute return.
EngineAnswers ==
  [wait : {"ok", "timeout"}, visible : BOOLEAN,
   content : {Null, Str(arg.txt_Hi), Str(arg.txt_query)}, click : {"ok", "fail"}]

\* The body of the try block of testElement up to the push: what the switch
\* leaves in result and actualValue, or the error thrown on the way.
TryElement(page, selector, testType, expectedValue, eng) ==
  LET canSplit == expectedValue.t = "string"
      parts == IF canSplit THEN Split(expectedValue.s, "=") ELSE <<>>
      attrValue == Destructure(parts, 2)
      Outcome(result, actualValue) ==
        Returned([result |-> result, actualValue |-> actualValue])
  IN IF page = "null" THEN Threw("TypeError", NullPageMessage)
     ELSE IF eng.wait = "timeout" THEN Threw("TimeoutError", TimeoutMessage)
     ELSE CASE testType = "exists" -> Outcome(eng.visible, Null)
            [] testType = "text" ->
                 Outcome(StrictEquals(eng.content, expectedValue), eng.content)
            [] testType = "attribute" ->
                 IF canSplit
                 THEN Outcome(StrictEquals(eng.content, attrValue), eng.content)
                 ELSE Threw("TypeError",
                            <<"Cannot read properties of undefined (reading 'split')">>)
            [] testType = "clickable" ->
                 IF eng.click = "ok" THEN Outcome(TRUE, Null)
                 ELSE Threw("Error", ClickMessage)
            [] OTHER -> Threw("Error", <<"Unknown test type: ", testType>>)

\* Mutant of OnCatch: the error is thrown again and nothing is recorded.
OnCatchRethrow(results, selector, testType, expectedValue, message, now) ==
  [result |-> Threw("Error", message), results |-> results]

\* The catch block of testElement.
OnCatch(results, selector, testType, expectedValue, message, now) ==
  [result |-> Returned(FALSE),
   results |-> Append(results,
                      [selector |-> selector, testType |-> testType,
                       expected |-> expectedValue, error |-> message,
                       passed |-> FALSE, timestamp |-> now])]

\* testElement on an agent whose testResults is results, at time now: the
\* result of the call and the testResults it leaves.
pwTestElement(page, results, selector, testType, expectedValue, eng, now) ==
  LET t == TryElement(page, selector, testType, expectedValue, eng)
  IN IF t.threw
     THEN OnCatch(results, selector, testType, expectedValue, t.message, now)
     ELSE [result |-> Returned(t.value.result),
           results |-> Append(results,
                              [selector |-> selector, testType |-> testType,
                               expected |-> expectedValue,
                               actual |-> t.value.actualValue,
                               passed |-> t.value.result, timestamp |-> now])]

\* initialize: the output directory, then the browser, context and page.
PwInitialize ==
  /\ pwDirs' = pwDirs \cup {pwOutputDir}
  /\ pwPage' = "page"
  /\ pwLast' = [op |-> "initialize", result |-> Returned(<<>>)]
  /\ UNCHANGED <<pwFiles, pwResults, pwClock, cyVars, rtVars, calls>>

PwTestElement(selector, testType, expectedValue, eng) ==
  LET r == pwTestElement(pwPage, pwResults, selector, testType, expectedValue,
                         eng, pwClock)
  IN /\ pwResults' = r.results
     /\ pwClock' = pwClock + 1
     /\ pwLast' = [op |-> "testElement", selector |-> selector,
                   testType |-> testType, expectedValue |-> expectedValue,
                   raised |-> TryElement(pwPage, selector, testType,
                                         expectedValue, eng),
                   result |-> r.result]
     /\ calls' = calls + 1
     /\ UNCHANGED <<pwPage, pwDirs, pwFiles, cyVars, rtVars>>

\* Math.round((passedTests / totalTests) * 100) of the direct-driver report.
pwPassRate(passedTests, totalTests) == PercentRounded(passedTests, totalTests)

\* this.testResults.filter(test => test.passed).length.
PassedCount(results) == Cardinality({k \in 1..Len(results) : results[k].passed})

\* test.expected || 'N/A'.
ExpectedCell(test) ==
  IF Truthy(test.expected) THEN Interpolate(test.expected) ELSE <<"N/A">>

\* test.actual || test.error || 'N/A'.
ActualCell(test) ==
  IF "actual" \in DOMAIN test /\ Truthy(test.actual) THEN Interpolate(test.actual)
  ELSE IF "error" \in DOMAIN test /\ test.error # <<>> THEN test.error
  ELSE <<"N/A">>

\* The row of the results table for one record.
TestRow(test) ==
  <<"<tr class='", IF test.passed THEN "" ELSE "test-failed", "'><td>">>
    \o test.selector \o <<"</td><td>", test.testType, "</td><td>">>
    \o ExpectedCell(test) \o <<"</td><td>">> \o ActualCell(test)
    \o <<"</td><td>", IF test.passed THEN "PASS" ELSE "FAIL", "</td><td>",
         ToString(test.timestamp), "</td></tr>">>

\* The HTML report of the direct-driver agent.
pwHtmlReport(results) ==
  LET passedTests == PassedCount(results)
      totalTests == Len(results)
  IN <<"<h1>UI Test Results</h1>", "Passed: ", ToString(passedTests), " / ",
       ToString(totalTests), "Failed: ", ToString(totalTests - passedTests),
       " / ", ToString(totalTests), "Pass Rate: ">>
       \o Interpolate(pwPassRate(passedTests, totalTests)) \o <<"%">>
       \o <<"<table>">>
       \o Flatten([k \in 1..Len(results) |-> TestRow(results[k])])
       \o <<"</table>">>

\* this.testResults of the direct-driver agent as an array of objects: the
\* properties of a record in the order testElement wrote them.
pwResultsArray(results) ==
  LET TestObject(test) ==
        ObjectOf(<<[key |-> <<"selector">>, value |-> Str(test.selector)],
                   [key |-> <<"testType">>, value |-> Str(<<test.testType>>)],
                   [key |-> <<"expected">>, value |-> test.expected],
                   IF "error" \in DOMAIN test
                   THEN [key |-> <<"error">>, value |-> Str(test.error)]
                   ELSE [key |-> <<"actual">>, value |-> test.actual],
                   [key |-> <<"passed">>, value |-> Bool(test.passed)],
                   [key |-> <<"timestamp">>,
                    value |-> Str(<<ToString(test.timestamp)>>)]>>)
  IN [t |-> "array", items |-> [k \in 1..Len(results) |-> TestObject(results[k])]]

pwReportJson == <<"test-results/report.json">>
pwReportHtml == <<"test-results/report.html">>

\* generateReport of the direct-driver agent: report.json (the results as
\* JSON), then report.html.
PwGenerateReport ==
  /\ IF pwOutputDir \notin pwDirs
     THEN /\ pwLast' = [op |-> "generateReport", written |-> FALSE,
                        result |-> Threw("Error",
                          <<"ENOENT: no such file or directory, open '">>
                            \o pwReportJson \o <<"'">>)]
          /\ UNCHANGED pwFiles
     ELSE /\ pwFiles' = WithFile(WithFile(pwFiles, pwReportJson,
                                          Stringify(pwResultsArray(pwResults))),
                                 pwReportHtml, pwHtmlReport(pwResults))
          /\ pwLast' = [op |-> "generateReport", written |-> TRUE,
                        result |-> Returned(<<>>)]
  /\ calls' = calls + 1
  /\ UNCHANGED <<pwPage, pwDirs, pwResults, pwClock, cyVars, rtVars>>

-----------------------------------------------------------------------------
(* The route/viewport agent.                                               *)

testsDir == "./cypress/e2e/auto-generated"
screenshotsDir == "./cypress/screenshots"
reportsDir == "./cypress/reports"

\* The constructor: the configuration, then initialize, which makes testsDir
\* and screenshotsDir (and their parents) unless they exist.
RtConstructor ==
  /\ ~rtBuilt
  /\ rtBuilt' = TRUE
  /\ rtDirs' = rtDirs \cup {"./cypress", "./cypress/e2e", testsDir, screenshotsDir}
  /\ rtLast' = [op |-> "constructor", result |-> Returned(<<>>)]
  /\ UNCHANGED <<rtFiles, rtShots, rtEngine, rtObject, cyVars, pwVars, calls>>

\* What error.message of a failed `npx cypress run` is.
ExecMessage == <<"Command failed: npx cypress run">>

\* runTests of the route/viewport agent: execSync('npx cypress run') once;
\* true when it returns, false (the message goes to the console) when it
\* throws.  The run leaves `shots` in the screenshots directory.
RtRunTests(ok, shots) ==
  /\ rtBuilt
  /\ rtEngine' = rtEngine + 1
  /\ rtShots' = shots
  /\ rtLast' = [op |-> "runTests", engineFailed |-> ~ok,
                engineMessage |-> IF ok THEN <<>> ELSE ExecMessage,
                console |-> IF ok THEN <<"Tests completed successfully">>
                            ELSE <<"Error running tests:">> \o ExecMessage,
                result |-> Returned(ok)]
  /\ calls' = calls + 1
  /\ UNCHANGED <<rtBuilt, rtDirs, rtFiles, rtObject, cyVars, pwVars>>

\* this.routes and this.viewports of the agent (the names of the viewports).
routes ==
  <<<<"/">>, <<"/", "a", "b", "o", "u", "t">>, <<"/", "a", "-", "b">>, <<"/", "a", "-", "c">>>>
viewports ==
  <<<<"d", "e", "s", "k", "t", "o", "p">>, <<"m", "o", "b", "i", "l", "e">>, <<"x", "-", "l">>>>

\* route === '/' ? 'home' : route.replace(/\//g, '_').slice(1).
routeNameOf(route) ==
  IF route = <<"/">> THEN <<"h", "o", "m", "e">>
  ELSE Tail([k \in 1..Len(route) |-> IF route[k] = "/" THEN "_" ELSE route[k]])

testFilePath(routeName) ==
  <<"cypress/e2e/auto-generated", "/">> \o routeName \o <<"_spec.e2e.js">>

\* generateTestContent: the name the generated test gives the screenshot of
\* a loaded page is `${routeName}-${viewport.name}-page-loaded`.
generateTestContent(route, routeName) ==
  <<"// Auto-generated test for ">> \o route \o <<"describe('">> \o routeName
    \o <<" page tests', () => { const viewports = ">>
    \o Flatten(viewports)
    \o <<"; cy.visit('">> \o <<"https://example.com">> \o route
    \o <<"'); cy.screenshot(">> \o routeName
    \o <<"-", "viewport.name", "-page-loaded", "); ... })">>

\* The file cy.screenshot(`${routeName}-${viewport.name}-page-loaded`) of the
\* generated test leaves below the screenshots directory.
pageLoadedShot(routeName, viewportName) ==
  <<"cypress/screenshots", "/">> \o routeName \o <<"_spec.e2e.js", "/">>
    \o routeName \o <<"-">> \o viewportName
    \o <<"-", "p", "a", "g", "e", "-", "l", "o", "a", "d", "e", "d", ".", "p", "n", "g">>

\* The loop of generateTests from route i on: a write that throws ends it.
RECURSIVE GenerateTestsFrom(_, _, _)
GenerateTestsFrom(dirs, files, i) ==
  IF i > Len(routes) THEN [result |-> Returned(<<>>), files |-> files]
  ELSE LET routeName == routeNameOf(routes[i])
           w == writeFileSync(dirs, files, testsDir, testFilePath(routeName),
                              generateTestContent(routes[i], routeName))
       IN IF w.result.threw THEN w
          ELSE GenerateTestsFrom(dirs, w.files, i + 1)

RtGenerateTests ==
  /\ rtBuilt
  /\ LET g == GenerateTestsFrom(rtDirs, rtFiles, 1)
     IN /\ rtFiles' = g.files
        /\ rtLast' = [op |-> "generateTests", result |-> g.result]
  /\ calls' = calls + 1
  /\ UNCHANGED <<rtBuilt, rtDirs, rtShots, rtEngine, rtObject, cyVars, pwVars>>

\* The property names every object inherits from Object.prototype and every
\* function from Function.prototype, as far as the model knows them: each is
\* a function, so a lookup of one of them on an object that has no own
\* property of that name is truthy.
InheritedKeys ==
  {<<"c", "o", "n", "s", "t", "r", "u", "c", "t", "o", "r">>,
   <<"t", "o", "S", "t", "r", "i", "n", "g">>,
   <<"v", "a", "l", "u", "e", "O", "f">>}

\* An object used as a map is a list of [key, ...] entries in insertion order.
KeysOf(m) == {m[k].key : k \in 1..Len(m)}
IndexOf(m, key) == CHOOSE k \in 1..Len(m) : m[k].key = key

\* if (!obj[viewport]) obj[viewport] = []; obj[viewport].push(file), for an
\* obj whose own properties are `groups`, when obj[viewport] is an array or
\* absent.
PushFile(groups, viewport, file) ==
  IF viewport \in KeysOf(groups)
  THEN [groups EXCEPT ![IndexOf(groups, viewport)].files = Append(@, file)]
  ELSE Append(groups, [key |-> viewport, files |-> <<file>>])

\* The same for the object m[route], made when m has none.
PushGrouped(m, route, viewport, file) ==
  IF route \in KeysOf(m)
  THEN [m EXCEPT ![IndexOf(m, route)].groups = PushFile(@, viewport, file)]
  ELSE Append(m, [key |-> route, groups |-> PushFile(<<>>, viewport, file)])

\* path.basename(file, '.png').split('-').
Segments(file) == Split(BasenameExt(file, <<".", "p", "n", "g">>), "-")

\* The body of the forEach of generateReport from file i on.  reportData is
\* the object being filled; `inherited` holds the arrays the loop hangs on
\* the functions reportData inherits (reportData['constructor'] is the
\* function Object, which outlives the call).
RECURSIVE GroupFrom(_, _, _, _)
GroupFrom(files, i, reportData, inherited) ==
  IF i > Len(files)
  THEN [result |-> Returned(reportData), inherited |-> inherited]
  ELSE
    LET parts == Segments(files[i])
        route == parts[1]
        viewport == parts[2]
        own == route \in KeysOf(reportData)
        \* reportData[route] is own, inherited (a function), or made here
        onInherited == ~own /\ route \in InheritedKeys
        \* reportData[route][viewport] is an array, absent, or a function
        \* the object inherits
        isArray ==
          IF onInherited
          THEN route \in KeysOf(inherited)
               /\ viewport \in KeysOf(inherited[IndexOf(inherited, route)].groups)
          ELSE own /\ viewport
                 \in KeysOf(reportData[IndexOf(reportData, route)].groups)
    IN IF Len(parts) < 2 THEN GroupFrom(files, i + 1, reportData, inherited)
       ELSE IF ~isArray /\ viewport \in InheritedKeys
       THEN [result |-> Threw("TypeError",
                              <<"reportData[route][viewport].push is not a function">>),
             inherited |-> inherited]
       ELSE IF onInherited
       THEN GroupFrom(files, i + 1, reportData,
                      PushGrouped(inherited, route, viewport, files[i]))
       ELSE GroupFrom(files, i + 1,
                      PushGrouped(reportData, route, viewport, files[i]),
                      inherited)

\* getAllFiles(this.screenshotsDir).filter(file => file.endsWith('.png')).
PngFiles(files) == SelectSeq(files, LAMBDA f : EndsWith(f, <<".", "p", "n", "g">>))

\* The section of the report for one viewport of one route.
ViewportSection(group) ==
  <<"<h3>Viewport: ">> \o group.key
    \o <<"</h3>", "Screenshots: ", ToString(Len(group.files))>>
    \o Flatten([k \in 1..Len(group.files) |->
                  <<"<p>">> \o Basename(group.files[k]) \o <<"</p><img src='.">>
                    \o group.files[k] \o <<"'/>">>])

RouteSection(entry) ==
  <<"<h2>Route: ">> \o entry.key \o <<"</h2>">>
    \o Flatten([k \in 1..Len(entry.groups) |-> ViewportSection(entry.groups[k])])

\* generateHtmlReport; the date it shows is left out.
generateHtmlReport(reportData, files) ==
  <<"<h1>UI Testing Report</h1>", "Routes tested: ", ToString(Len(reportData)),
    "Viewports tested: ", ToString(Len(viewports)), "Total screenshots: ",
    ToString(Len(PngFiles(files)))>>
    \o Flatten([k \in 1..Len(reportData) |-> RouteSection(reportData[k])])

rtReportPath == <<"cypress/reports/ui-test-report.html">>

\* generateReport of the route/viewport agent: the grouping, the HTML, the
\* reports directory, the file.
RtGenerateReport ==
  /\ rtBuilt
  /\ LET g == GroupFrom(PngFiles(rtShots), 1, <<>>, rtObject)
     IN /\ rtObject' = g.inherited
        /\ IF g.result.threw
           THEN /\ rtLast' = [op |-> "generateReport", result |-> g.result]
                /\ UNCHANGED <<rtDirs, rtFiles>>
           ELSE /\ rtDirs' = rtDirs \cup {reportsDir}
                /\ rtFiles' = WithFile(rtFiles, rtReportPath,
                                       generateHtmlReport(g.result.value, rtShots))
                /\ rtLast' = [op |-> "generateReport",
                              reportData |-> g.result.value,
                              result |-> Returned(rtReportPath)]
  /\ calls' = calls + 1
  /\ UNCHANGED <<rtBuilt, rtShots, rtEngine, cyVars, pwVars>>

\* The names of the files a run may leave in the screenshots directory.
shotName ==
  [home_desktop |->
     <<"h", "o", "m", "e", "-", "d", "e", "s", "k", "t", "o", "p", "-", "a", ".", "p", "n", "g">>,
   home_mobile |->
     <<"h", "o", "m", "e", "-", "m", "o", "b", "i", "l", "e", "-", "b", ".", "p", "n", "g">>,
   bad |-> <<"b", "a", "d", ".", "p", "n", "g">>,
   x_constructor |->
     <<"x", "-", "c", "o", "n", "s", "t", "r", "u", "c", "t", "o", "r", ".", "p", "n", "g">>,
   constructor_desktop |->
     <<"c", "o", "n", "s", "t", "r", "u", "c", "t", "o", "r", "-", "d", "e", "s", "k", "t", "o", "p", "-", "a", ".", "p", "n", "g">>,
   text |-> <<"a", "-", "b", ".", "t", "x", "t">>]

\* path.join(dir, file) of getAllFiles, for a file of the screenshots
\* directory and for a file of a directory below it.
ShotPath(name) == <<"cypress/screenshots", "/">> \o name
ShotPathBelow(name) == <<"cypress/screenshots", "/", "s", "/">> \o name

ShotPool ==
  {ShotPathBelow(shotName.home_desktop), ShotPath(shotName.home_mobile),
   ShotPath(shotName.bad), ShotPath(shotName.x_constructor),
   ShotPath(shotName.constructor_desktop), ShotPath(shotName.text)}

\* The directory listings of at most MaxShots files.
ShotLists ==
  {l \in SeqsUpTo(ShotPool, MaxShots) :
     \A a, b \in 1..Len(l) : a # b => l[a] # l[b]}

\* runTestWorkflow: generateTests, then runTests, then generateReport when
\* runTests returned true; an error of generateTests or generateReport ends
\* it.  The run leaves `shots` in the screenshots directory.
RtRunTestWorkflow ==
  /\ calls < MaxCalls
  /\ rtBuilt
  /\ \E success \in BOOLEAN,
        shots \in {<<>>, <<<<"cypress/screenshots", "/">> \o shotName.home_desktop>>} :
       LET t == GenerateTestsFrom(rtDirs, rtFiles, 1)
           g == GroupFrom(PngFiles(shots), 1, <<>>, rtObject)
       IN IF t.result.threw
          THEN /\ rtFiles' = t.files
               /\ rtLast' = [op |-> "runTestWorkflow", success |-> FALSE,
                             reported |-> FALSE, result |-> t.result]
               /\ UNCHANGED <<rtDirs, rtShots, rtEngine, rtObject>>
          ELSE /\ rtEngine' = rtEngine + 1
               /\ rtShots' = shots
               /\ IF ~success
                  THEN /\ rtFiles' = t.files
                       /\ rtLast' = [op |-> "runTestWorkflow", success |-> FALSE,
                                     reported |-> FALSE,
                                     result |-> Returned(<<>>)]
                       /\ UNCHANGED <<rtDirs, rtObject>>
                  ELSE /\ rtObject' = g.inherited
                       /\ IF g.result.threw
                          THEN /\ rtFiles' = t.files
                               /\ rtLast' = [op |-> "runTestWorkflow",
                                             success |-> TRUE, reported |-> FALSE,
                                             result |-> g.result]
                               /\ UNCHANGED rtDirs
                          ELSE /\ rtDirs' = rtDirs \cup {reportsDir}
                               /\ rtFiles' =
                                    WithFile(t.files, rtReportPath,
                                             generateHtmlReport(g.result.value, shots))
                               /\ rtLast' = [op |-> "runTestWorkflow",
                                             success |-> TRUE, reported |-> TRUE,
                                             result |-> Returned(<<>>)]
  /\ calls' = calls + 1
  /\ UNCHANGED <<rtBuilt, cyVars, pwVars>>

-----------------------------------------------------------------------------
(* Specifications.                                                         *)

PwInit ==
  /\ pwPage = "null"
  /\ pwDirs = {}
  /\ pwFiles = <<>>
  /\ pwResults = <<>>
  /\ pwClock = 0
  /\ pwLast = [op |-> "constructor"]

RtInit ==
  /\ rtBuilt = FALSE
  /\ rtDirs = {}
  /\ rtFiles = <<>>
  /\ rtShots = <<>>
  /\ rtEngine = 0
  /\ rtObject = <<>>
  /\ rtLast = [op |-> "none"]

Init == CyInit /\ PwInit /\ RtInit /\ calls = 0

\* The Action Builder and buildTestSuite of the script-generating agent.
BuildSuite ==
  /\ calls < MaxBuildCalls
  /\ \E a \in ActionLists : CyBuildTestSuite(arg.suite_Example, a)

BuildElementTest ==
  /\ calls < MaxBuildCalls
  /\ \E k \in TestTypes, e \in ExpectedValues : CyGenerateElementTest(arg.sel_h1, k, e)

NextBuild == CyInitialize \/ BuildSuite \/ BuildElementTest

SpecBuild == Init /\ [][NextBuild]_vars

\* generateFormFillAction of the script-generating agent.
FormFill ==
  /\ calls < MaxBuildCalls
  /\ \E fd \in FormDatas : CyGenerateFormFillAction(fd)

NextForm == CyInitialize \/ FormFill

SpecForm == Init /\ [][NextForm]_vars

-----------------------------------------------------------------------------
(* Claims about the Action Builder and buildTestSuite.                     *)

\* The statements one action compiles to, taken alone.
StatementsOf(action) ==
  CASE action.type = "navigate" -> <<generateNavigationAction(action.url)>>
    [] action.type = "testElement" ->
         <<ElementStatement(action.selector, action.testType,
                            action.expectedValue).value>>
    [] action.type = "fillForm" -> generateFormFillAction(action.formData)
    [] action.type = "screenshot" -> <<generateScreenshotAction(action.name)>>
    [] action.type = "wait" ->
         <<(<<"cy.wait(">> \o Interpolate(action.milliseconds) \o <<")">>)>>
    [] OTHER -> <<>>

IsUnsupported(action) ==
  action.type = "testElement" /\ action.testType \notin SupportedKinds

Mentions(message, atom) == \E i \in 1..Len(message) : message[i] = atom

\* C1: the statement list buildTestSuite hands to createTest is the
\* concatenation, in input order, of the statements of each action, and the
\* suite file written holds exactly that list.
C1_OrderPreserved ==
  (cyLast.op = "buildTestSuite" /\ cyLast.created) =>
    LET expected ==
          Flatten([j \in 1..Len(cyLast.actions) |->
                     StatementsOf(cyLast.actions[j])])
    IN /\ cyLast.handed = expected
       /\ ~cyLast.result.threw =>
            cyFiles[specFilePath(cyLast.suiteName)]
              = testContent(cyLast.suiteName, expected)

\* C1 witness: a fill-form action (two statements) followed by a navigation
\* was assembled into a suite of three statements.
C1_Witness ==
  /\ cyLast.op = "buildTestSuite"
  /\ cyLast.created
  /\ ~cyLast.result.threw
  /\ Len(cyLast.actions) = 2
  /\ cyLast.actions[1].type = "fillForm"
  /\ cyLast.actions[2].type = "navigate"
  /\ Len(cyLast.handed) = 3
  /\ cyLast.handed[3] = generateNavigationAction(arg.url_root)

\* C2: an assertion kind outside the supported set makes generateElementTest,
\* and a buildTestSuite that compiles it, fail with an error that names the
\* kind; no statement is produced for it: no suite is assembled and no
\* record of testResults carries such a kind.
C2_UnsupportedKindFails ==
  /\ (cyLast.op = "generateElementTest"
        /\ cyLast.testType \notin SupportedKinds) =>
       /\ cyLast.result.threw
       /\ Mentions(cyLast.result.message, cyLast.testType)
  /\ (cyLast.op = "buildTestSuite"
        /\ \E j \in 1..Len(cyLast.actions) : IsUnsupported(cyLast.actions[j])) =>
       LET first == CHOOSE j \in 1..Len(cyLast.actions) :
                      /\ IsUnsupported(cyLast.actions[j])
                      /\ \A k \in 1..(j - 1) : ~IsUnsupported(cyLast.actions[k])
       IN /\ cyLast.result.threw
          /\ Mentions(cyLast.result.message, cyLast.actions[first].testType)
          /\ ~cyLast.created
  /\ testResults.kind = "array" =>
       \A i \in 1..Len(testResults.items) :
         testResults.items[i].testType \in SupportedKinds

\* C2 witness: buildTestSuite compiled a navigation, met an action of kind
\* hover and failed with the error naming hover.
C2_Witness ==
  /\ cyLast.op = "buildTestSuite"
  /\ Len(cyLast.actions) = 2
  /\ cyLast.actions[1].type = "navigate"
  /\ IsUnsupported(cyLast.actions[2])
  /\ cyLast.result.threw
  /\ cyLast.result.message = <<"Unknown test type: ", "hover">>

\* C3: when the list given to buildTestSuite holds a testElement action of an
\* unsupported kind, the other actions of the list are still compiled.
C3_OtherActionsStillCompiled ==
  (cyLast.op = "buildTestSuite"
     /\ \E j \in 1..Len(cyLast.actions) : IsUnsupported(cyLast.actions[j])) =>
    \A j \in 1..Len(cyLast.actions) :
      ~IsUnsupported(cyLast.actions[j]) => j \in 1..Len(cyLast.starts)

-----------------------------------------------------------------------------
(* Claims about generateFormFillAction.                                    *)

\* The statement the form-fill rule asks for one field.
C7_Expected(selector, value) ==
  IF value.t = "boolean" /\ value.b
  THEN <<"cy.get('">> \o selector \o <<"').check()">>
  ELSE IF value.t = "boolean"
  THEN <<"cy.get('">> \o selector \o <<"').uncheck()">>
  ELSE IF \E i \in 1..Len(selector) :
            i + 5 <= Len(selector)
            /\ <<selector[i], selector[i + 1], selector[i + 2], selector[i + 3],
                 selector[i + 4], selector[i + 5]>>
                 = <<"s", "e", "l", "e", "c", "t">>
  THEN <<"cy.get('">> \o selector \o <<"').select('">> \o value.s \o <<"')">>
  ELSE <<"cy.get('">> \o selector \o <<"').clear().type('">> \o value.s
         \o <<"')">>

\* C7: generateFormFillAction returns one statement per field, in the order
\* of the mapping's entries: check / uncheck for a boolean value whatever the
\* selector, else select when the selector contains 'select', else
\* clear-then-type.
C7_FormFillPerField ==
  cyLast.op = "generateFormFillAction" =>
    LET fd == cyLast.formData
        out == cyLast.result.value
    IN /\ Len(out) = Len(fd)
       /\ \A i \in 1..Len(fd) :
            out[i] = C7_Expected(fd[i].selector, fd[i].value)

\* C7 witness: the mapping {"#subscribe": true, "#country select": "US",
\* "#name": "Alice"} gave a check, a select and a clear-then-type statement.
C7_Witness ==
  /\ cyLast.op = "generateFormFillAction"
  /\ cyLast.formData = <<Field(arg.sel_subscribe, Bool(TRUE)),
                         Field(arg.sel_country, Str(arg.txt_US)),
                         Field(arg.sel_name, Str(arg.txt_Alice))>>
  /\ cyLast.result.value =
       << <<"cy.get('">> \o arg.sel_subscribe \o <<"').check()">>,
          <<"cy.get('">> \o arg.sel_country \o <<"').select('">> \o arg.txt_US \o <<"')">>,
          <<"cy.get('">> \o arg.sel_name \o <<"').clear().type('">> \o arg.txt_Alice
            \o <<"')">> >>

-----------------------------------------------------------------------------
(* The direct-driver agent's testElement.                                  *)

DirectTestElement ==
  /\ calls < MaxDirectCalls
  /\ \E k \in {"exists", "text", "attribute", "clickable", "hover"},
        e \in {Undefined, Str(arg.txt_Hi), Str(arg.txt_href),
               Str(arg.txt_href_query)},
        eng \in EngineAnswers :
       PwTestElement(arg.sel_h1, k, e, eng)

NextDirect == PwInitialize \/ DirectTestElement

SpecDirect == Init /\ [][NextDirect]_vars

\* C4: every testElement call of the direct-driver agent returns a boolean
\* without throwing and appends exactly one record, carrying the call's
\* selector and test type, to testResults; when the engine raised during the
\* call, the record has passed = false and the error's message.
C4_OneRecordPerCall ==
  [][(pwLast'.op = "testElement" /\ pwClock' # pwClock) =>
       /\ ~pwLast'.result.threw
       /\ pwLast'.result.value \in BOOLEAN
       /\ Len(pwResults') = Len(pwResults) + 1
       /\ SubSeq(pwResults', 1, Len(pwResults)) = pwResults
       /\ LET rec == pwResults'[Len(pwResults')]
          IN /\ rec.selector = pwLast'.selector
             /\ rec.testType = pwLast'.testType
             /\ rec.passed = pwLast'.result.value
             /\ pwLast'.raised.threw =>
                  /\ rec.passed = FALSE
                  /\ rec.error = pwLast'.raised.message]_vars

\* C4 witness: a call during which the engine timed out was recorded as
\* failed, and the call after it ran and was recorded as passed.
C4_Witness ==
  /\ Len(pwResults) = 2
  /\ pwResults[1].passed = FALSE
  /\ "error" \in DOMAIN pwResults[1]
  /\ pwResults[1].error = TimeoutMessage
  /\ pwResults[2].passed = TRUE
  /\ pwLast.op = "testElement"
  /\ pwLast.result = Returned(TRUE)

-----------------------------------------------------------------------------
(* Running the suites and rendering the reports.                           *)

RunCyResolved ==
  /\ calls < MaxCalls
  /\ \E r \in EngineResults : CyRunTestsResolved(r)

RunCyRejected ==
  /\ calls < MaxCalls
  /\ \E m \in EngineErrors : CyRunTestsRejected(m)

RunCyReport == calls < MaxCalls /\ CyGenerateReport

RunPwTestElement ==
  /\ calls < MaxCalls
  /\ \E eng \in {e \in EngineAnswers : e.content = Null /\ e.click = "ok"} :
       PwTestElement(arg.sel_h1, "exists", Undefined, eng)

RunPwReport == calls < MaxCalls /\ PwGenerateReport

RunRtTests ==
  /\ calls < MaxCalls
  /\ \E ok \in BOOLEAN : RtRunTests(ok, <<>>)

NextRun ==
  \/ CyInitialize \/ PwInitialize \/ RtConstructor
  \/ RunCyResolved \/ RunCyRejected \/ RunCyReport
  \/ RunPwTestElement \/ RunPwReport \/ RunRtTests

SpecRun == Init /\ [][NextRun]_vars

\* C5: when the engine reports a failure, runTests surfaces it to its
\* caller as an error carrying the engine's message; for the API-based
\* runTests and for the shell-out runTests.
C5_EngineFailureSurfaced ==
  /\ (cyLast.op = "runTests" /\ cyLast.engineFailed) =>
       /\ cyLast.result.threw
       /\ cyLast.result.message = cyLast.engineMessage
  /\ (rtLast.op = "runTests" /\ rtLast.engineFailed) =>
       /\ rtLast.result.threw
       /\ rtLast.result.message = rtLast.engineMessage

\* The part of C5 that holds of both agents: the engine is invoked by
\* runTests only, and one run at a time (no retry), whatever it answers.
C5_EngineOncePerCall ==
  [][/\ cyEngine' # cyEngine =>
          /\ cyLast'.op = "runTests"
          /\ cyEngine' = Append(cyEngine, specFiles)
     /\ rtEngine' # rtEngine =>
          /\ rtLast'.op = "runTests"
          /\ rtEngine' = rtEngine + 1]_vars

\* The pass rate a rendered report shows: the text after "Pass Rate: ".
RenderedPassRate(html) ==
  LET i == CHOOSE k \in 1..Len(html) : html[k] = "Pass Rate: "
  IN <<html[i + 1]>>

\* C6: a report rendered from a result set whose total is 0 shows a pass rate
\* of 0; for the per-spec-file renderer and for the per-assertion renderer.
C6_ZeroTotalRendersZero ==
  /\ (cyLast.op = "generateReport" /\ cyLast.written
        /\ OrZero(testResults.totalTests) = 0) =>
       RenderedPassRate(cyFiles[cyReportHtml]) = <<"0">>
  /\ (pwLast.op = "generateReport" /\ pwLast.written /\ Len(pwResults) = 0) =>
       RenderedPassRate(pwFiles[pwReportHtml]) = <<"0">>

\* The part of C6 that holds: the per-spec-file renderer shows 0 for a total
\* of 0 or an absent total.
C6_SpecFileRendererZero ==
  (cyLast.op = "generateReport" /\ cyLast.written
     /\ OrZero(testResults.totalTests) = 0) =>
    RenderedPassRate(cyFiles[cyReportHtml]) = <<"0">>

C6_SpecFileRendererZeroReached ==
  /\ cyLast.op = "generateReport"
  /\ cyLast.written
  /\ testResults.totalTests = Undefined

-----------------------------------------------------------------------------
(* The route/viewport report.                                              *)

ShotsRun ==
  /\ calls < MaxShotCalls
  /\ \E l \in ShotLists : RtRunTests(TRUE, l)

ShotsReport == calls < MaxShotCalls /\ RtGenerateReport

NextShots == RtConstructor \/ ShotsRun \/ ShotsReport

SpecShots == Init /\ [][NextShots]_vars

\* The groups of reportData that hold file: the (route, viewport) pairs.
GroupsHolding(reportData, file) ==
  {<<reportData[r].key, reportData[r].groups[v].key>> :
     <<r, v>> \in {<<r, v>> \in (1..Len(reportData)) \X (1..MaxShots + 1) :
                     /\ v <= Len(reportData[r].groups)
                     /\ \E k \in 1..Len(reportData[r].groups[v].files) :
                          reportData[r].groups[v].files[k] = file}}

IsPng(file) ==
  Len(file) >= 4 /\ SubSeq(file, Len(file) - 3, Len(file)) = <<".", "p", "n", "g">>

\* The hyphen-delimited segments of the name of a .png file, the directory
\* and the extension left out.
NameSegments(file) ==
  LET base == SubSeq(file, LastSlash(file) + 1, Len(file) - 4)
  IN Split(base, "-")

\* C8: generateReport of the route/viewport agent raises no error and files
\* every .png file whose name has at least two hyphen-delimited segments in
\* exactly one group, keyed by its first and then its second segment; the
\* other files are in no group.
C8_ScreenshotGrouping ==
  rtLast.op = "generateReport" =>
    /\ ~rtLast.result.threw
    /\ \A k \in 1..Len(rtShots) :
         LET file == rtShots[k]
             held == GroupsHolding(rtLast.reportData, file)
         IN IF IsPng(file) /\ Len(NameSegments(file)) >= 2
            THEN held = {<<NameSegments(file)[1], NameSegments(file)[2]>>}
            ELSE held = {}

\* Whether a segment is a name every object inherits.
IsInheritedName(seg) == seg \in InheritedKeys

\* The part of C8 that holds: the same, for the listings none of whose .png
\* files has an inherited property name as first or second segment.
C8_GroupingOfOrdinaryNames ==
  (rtLast.op = "generateReport"
     /\ \A k \in 1..Len(rtShots) :
          (IsPng(rtShots[k]) /\ Len(NameSegments(rtShots[k])) >= 2) =>
            /\ ~IsInheritedName(NameSegments(rtShots[k])[1])
            /\ ~IsInheritedName(NameSegments(rtShots[k])[2])) =>
    /\ ~rtLast.result.threw
    /\ \A k \in 1..Len(rtShots) :
         LET file == rtShots[k]
             held == GroupsHolding(rtLast.reportData, file)
         IN IF IsPng(file) /\ Len(NameSegments(file)) >= 2
            THEN held = {<<NameSegments(file)[1], NameSegments(file)[2]>>}
            ELSE held = {}

\* The example of the claim: home-desktop-a.png, home-mobile-b.png and
\* bad.png give {home: {desktop: 1 file, mobile: 1 file}}.
C8_ExampleReached ==
  /\ rtLast.op = "generateReport"
  /\ rtShots = <<ShotPathBelow(shotName.home_desktop), ShotPath(shotName.home_mobile),
                 ShotPath(shotName.bad)>>
  /\ rtLast.reportData =
       <<[key |-> <<"h", "o", "m", "e">>,
          groups |-> <<[key |-> <<"d", "e", "s", "k", "t", "o", "p">>,
                        files |-> <<ShotPathBelow(shotName.home_desktop)>>],
                       [key |-> <<"m", "o", "b", "i", "l", "e">>,
                        files |-> <<ShotPath(shotName.home_mobile)>>]>>]>>

-----------------------------------------------------------------------------
(* The script files.                                                       *)

SuiteNames == {arg.suite_Example, arg.suite_example_spaced, arg.name_homepage}
StatementLists == {<<>>, <<arg.stmt_exists>>}

FilesCreateTest ==
  /\ calls < MaxCalls
  /\ \E testName \in SuiteNames, testActions \in StatementLists :
       CyCreateTest(testName, testActions)

FilesAccessibilityTest ==
  /\ calls < MaxCalls
  /\ \E testName \in SuiteNames : CyGenerateAccessibilityTest(testName)

FilesGenerateTests == calls < MaxCalls /\ RtGenerateTests

NextFiles ==
  \/ CyInitialize
  \/ RtConstructor
  \/ FilesCreateTest
  \/ FilesAccessibilityTest
  \/ FilesGenerateTests

SpecFiles == Init /\ [][NextFiles]_vars

\* The file each suite name is to give.
C9_ExpectedPath(testName) ==
  IF testName = arg.name_homepage THEN <<"./cypress/e2e/">> \o arg.name_homepage \o <<".cy.js">>
  ELSE <<"./cypress/e2e/", "e", "x", "a", "m", "p", "l", "e", "_",
         "t", "e", "s", "t", ".cy.js">>

\* C9: the file createTest writes is named by the suite name with every run
\* of whitespace replaced by one underscore, lower-cased, plus ".cy.js" (the
\* error of a write that fails names the same file); a call that finds the
\* file already there raises no error and leaves in it the suite of that
\* call only.
C9_FileNamingAndOverwrite ==
  cyLast.op = "createTest" =>
    LET path == C9_ExpectedPath(cyLast.testName)
        content == testContent(cyLast.testName, cyLast.testActions)
    IN /\ IF cyLast.result.threw
          THEN /\ path \notin DOMAIN cyFiles
               /\ Includes(cyLast.result.message, path)
          ELSE /\ cyLast.result.value = path
               /\ cyFiles[path] = content
               /\ specFiles[Len(specFiles)] = path
       /\ cyLast.previous # <<>> =>
            /\ ~cyLast.result.threw
            /\ cyFiles[path] = content

\* "Example Test" was written, then "example \t test" replaced it.
C9_Witness ==
  /\ cyLast.op = "createTest"
  /\ cyLast.testName = arg.suite_example_spaced
  /\ cyLast.previous = <<testContent(arg.suite_Example, <<arg.stmt_exists>>)>>
  /\ ~cyLast.result.threw
  /\ cyFiles[C9_ExpectedPath(arg.suite_Example)]
       = testContent(arg.suite_example_spaced, cyLast.testActions)

\* C10: createTest, generateAccessibilityTest and generateTests write their
\* files whether or not the directory was there before the call.
C10_ParentDirectoryEnsured ==
  /\ cyLast.op \in {"createTest", "generateAccessibilityTest"} =>
       ~cyLast.result.threw
  /\ rtLast.op = "generateTests" => ~rtLast.result.threw

\* The part of C10 that holds: generateTests of the route/viewport agent
\* writes a file for every route, the constructor having made the directory.
C10_RouteTestsWritten ==
  rtLast.op = "generateTests" =>
    /\ ~rtLast.result.threw
    /\ \A k \in 1..Len(routes) :
         testFilePath(routeNameOf(routes[k])) \in DOMAIN rtFiles

C10_RouteTestsWrittenReached ==
  /\ rtLast.op = "generateTests"
  /\ <<"cypress/e2e/auto-generated", "/", "a", "b", "o", "u", "t", "_spec.e2e.js">>
       \in DOMAIN rtFiles

-----------------------------------------------------------------------------
(* Further claims about the Action Builder and buildTestSuite.             *)

\* C11: a call of generateElementTest or generateFormFillAction leaves
\* testResults, specFiles and the files and directories on disk as they were.
C11_ActionBuilderSideEffectFree ==
  [][(calls' # calls
        /\ cyLast'.op \in {"generateElementTest", "generateFormFillAction"}) =>
       UNCHANGED <<testResults, specFiles, cyFiles, cyDirs>>]_vars

\* The part of C11 that holds: specFiles and the disk are left alone by
\* generateElementTest, and a call that throws leaves testResults alone too.
C11_DiskAndSpecFilesUntouched ==
  [][(calls' # calls /\ cyLast'.op = "generateElementTest") =>
       /\ UNCHANGED <<specFiles, cyFiles, cyDirs>>
       /\ cyLast'.result.threw => UNCHANGED testResults]_vars

\* C12: the suite buildTestSuite assembles holds exactly one statement per
\* action of the list it was given, whatever the types of the actions.
C12_OneStatementPerAction ==
  (cyLast.op = "buildTestSuite" /\ cyLast.created) =>
    Len(cyLast.handed) = Len(cyLast.actions)

\* The part of C12 that holds: an action of type navigate, testElement,
\* screenshot or wait gives exactly one statement, at its place.
C12_SingleStatementTypes ==
  (cyLast.op = "buildTestSuite" /\ cyLast.created
     /\ \A j \in 1..Len(cyLast.actions) :
          cyLast.actions[j].type
            \in {"navigate", "testElement", "screenshot", "wait"}) =>
    /\ Len(cyLast.handed) = Len(cyLast.actions)
    /\ \A j \in 1..Len(cyLast.actions) : cyLast.starts[j] = j - 1

-----------------------------------------------------------------------------
(* The reports read back.                                                  *)

\* JSON.parse of a text JSON.stringify wrote: the value that starts at
\* token i and the index of the token after it.
RECURSIVE ParseChars(_, _, _)
ParseChars(tok, i, acc) ==
  IF tok[i] = "\"" THEN [v |-> acc, next |-> i + 1]
  ELSE IF tok[i] = "\\" THEN ParseChars(tok, i + 2, Append(acc, tok[i + 1]))
  ELSE ParseChars(tok, i + 1, Append(acc, tok[i]))

IsDigit(c) == c \in {"0", "1", "2", "3", "4", "5", "6", "7", "8", "9"}

RECURSIVE ParseDigits(_, _, _)
ParseDigits(tok, i, n) ==
  IF i <= Len(tok) /\ IsDigit(tok[i])
  THEN ParseDigits(tok, i + 1,
                   10 * n + (CHOOSE d \in 0..9 : ToString(d) = tok[i]))
  ELSE [v |-> Num(n), next |-> i]

RECURSIVE ParseValue(_, _)
RECURSIVE ParseItems(_, _, _)
RECURSIVE ParseMembers(_, _, _)
ParseValue(tok, i) ==
  CASE tok[i] = "\"" ->
         LET r == ParseChars(tok, i + 1, <<>>)
         IN [v |-> Str(r.v), next |-> r.next]
    [] tok[i] = "{" ->
         IF tok[i + 1] = "}" THEN [v |-> ObjectOf(<<>>), next |-> i + 2]
         ELSE ParseMembers(tok, i + 1, <<>>)
    [] tok[i] = "[" ->
         IF tok[i + 1] = "]"
         THEN [v |-> [t |-> "array", items |-> <<>>], next |-> i + 2]
         ELSE ParseItems(tok, i + 1, <<>>)
    [] tok[i] = "true" -> [v |-> Bool(TRUE), next |-> i + 1]
    [] tok[i] = "false" -> [v |-> Bool(FALSE), next |-> i + 1]
    [] tok[i] = "null" -> [v |-> Null, next |-> i + 1]
    [] OTHER -> ParseDigits(tok, i, 0)

ParseItems(tok, i, acc) ==
  LET item == ParseValue(tok, i)
      items == Append(acc, item.v)
  IN IF tok[item.next] = "," THEN ParseItems(tok, item.next + 1, items)
     ELSE [v |-> [t |-> "array", items |-> items], next |-> item.next + 1]

ParseMembers(tok, i, acc) ==
  LET key == ParseChars(tok, i + 1, <<>>)
      val == ParseValue(tok, key.next + 1)
      members == Append(acc, [key |-> key.v, value |-> val.v])
  IN IF tok[val.next] = "," THEN ParseMembers(tok, val.next + 1, members)
     ELSE [v |-> ObjectOf(members), next |-> val.next + 1]

ParseJson(text) == ParseValue(text, 1).v

\* object[key] of a parsed object: undefined when it has no such property.
Member(object, key) ==
  IF \E k \in 1..Len(object.members) : object.members[k].key = <<key>>
  THEN object.members[CHOOSE k \in 1..Len(object.members) :
                        object.members[k].key = <<key>>].value
  ELSE Undefined

\* The counts the summary of a rendered report shows.
SummaryCounts(html) ==
  LET i == CHOOSE k \in 1..Len(html) : html[k] = "Passed: "
  IN [passed |-> html[i + 1], total |-> html[i + 3], failed |-> html[i + 5]]

\* A count read from a parsed report: 0 when it is not there.
CountOf(v) == IF v.t = "number" THEN v.n ELSE 0

\* C13: the counts recomputed from the parsed report.json are the counts
\* the summary of report.html shows: for the script-generating agent the
\* totals of the results, for the direct-driver agent the number of records,
\* of records that passed, and their difference.
C13_ReportRoundTrip ==
  /\ cyReportJson \in DOMAIN cyFiles =>
       LET parsed == ParseJson(cyFiles[cyReportJson])
       IN SummaryCounts(cyFiles[cyReportHtml])
            = [passed |-> ToString(CountOf(Member(parsed, "totalPassed"))),
               total |-> ToString(CountOf(Member(parsed, "totalTests"))),
               failed |-> ToString(CountOf(Member(parsed, "totalFailed")))]
  /\ pwReportJson \in DOMAIN pwFiles =>
       LET parsed == ParseJson(pwFiles[pwReportJson]).items
           total == Len(parsed)
           passed == Cardinality({k \in 1..Len(parsed) :
                                    Member(parsed[k], "passed") = Bool(TRUE)})
       IN SummaryCounts(pwFiles[pwReportHtml])
            = [passed |-> ToString(passed), total |-> ToString(total),
               failed |-> ToString(total - passed)]

\* C13 witness: a report of a run of 2 tests, 1 passed and 1 failed, was
\* written and reads back as such.
C13_Witness ==
  /\ cyLast.op = "generateReport"
  /\ cyLast.written
  /\ testResults.totalTests = Num(2)
  /\ Member(ParseJson(cyFiles[cyReportJson]), "totalFailed") = Num(1)
  /\ SummaryCounts(cyFiles[cyReportHtml]).failed = "1"

\* What JSON.stringify does not keep: totals that are undefined are not in
\* report.json, and read back as absent.
C13_UndefinedTotalsDropped ==
  (cyLast.op = "generateReport" /\ cyLast.written
     /\ testResults.totalTests = Undefined) =>
    Member(ParseJson(cyFiles[cyReportJson]), "totalTests") = Undefined

\* The direct-driver report of two records, one passed, reads back as such.
C13_DirectReportReached ==
  /\ pwLast.op = "generateReport"
  /\ pwLast.written
  /\ Len(pwResults) = 2
  /\ PassedCount(pwResults) = 1
  /\ Len(ParseJson(pwFiles[pwReportJson]).items) = 2

-----------------------------------------------------------------------------
(* The script-generating agent from the suite to the report.               *)

\* The actions of runExample's suite: a navigation, an assertion on the text
\* of h1, a screenshot.
ExampleActions ==
  <<navigateTo(arg.url_root),
    testElement(arg.sel_h1, "text", Str(arg.txt_Example)),
    captureScreenshot(arg.name_homepage)>>

LifeBuildSuite ==
  /\ calls < MaxCalls
  /\ \E a \in {ExampleActions, <<testElement(arg.sel_a, "hover", Undefined)>>,
               <<captureScreenshot(arg.name_homepage)>>} :
       CyBuildTestSuite(arg.suite_Example, a)

NextLife ==
  \/ CyInitialize
  \/ LifeBuildSuite
  \/ FilesCreateTest
  \/ FilesAccessibilityTest
  \/ RunCyResolved
  \/ RunCyRejected
  \/ RunCyReport
  \/ RtConstructor
  \/ RtRunTestWorkflow

SpecLife == Init /\ [][NextLife]_vars

\* The file and the statements the example suite is to give.
C14_Path ==
  <<"./cypress/e2e/", "e", "x", "a", "m", "p", "l", "e", "_", "t", "e", "s", "t",
    ".cy.js">>

C14_Statements ==
  << <<"cy.visit('", "/", "')">>,
     <<"cy.get('", "h", "1", "').should('have.text', '">> \o arg.txt_Example
       \o <<"')">>,
     <<"cy.screenshot('">> \o arg.name_homepage \o <<"')">> >>

\* The result of a run of 1 test that passed.
C14_OnePassed(results) ==
  /\ results.kind = "results"
  /\ results.hasRuns
  /\ results.totalTests = Num(1)
  /\ results.totalPassed = Num(1)
  /\ results.totalFailed = Num(0)

\* C14: on an initialized agent, buildTestSuite of the example's navigation,
\* text assertion and screenshot hands createTest the three statements in
\* that order and returns the path of the suite file, named from the title,
\* which holds them and is the last entry of specFiles (the only entry and
\* the only suite file when the call is the agent's first); and a report
\* rendered from a run of 1 test that passed shows passed 1, failed 0 and a
\* pass rate of 100.
C14_EndToEnd ==
  /\ (cyLast.op = "buildTestSuite" /\ cyLast.actions = ExampleActions
        /\ E2eDir \in cyDirs /\ testResults.kind = "array") =>
       /\ cyLast.handed = C14_Statements
       /\ cyLast.result = Returned(C14_Path)
       /\ cyFiles[C14_Path] = testContent(cyLast.suiteName, C14_Statements)
       /\ specFiles[Len(specFiles)] = C14_Path
       /\ calls = 1 =>
            /\ specFiles = <<C14_Path>>
            /\ DOMAIN cyFiles \subseteq {C14_Path, ConfigPath}
  /\ (cyLast.op = "generateReport" /\ C14_OnePassed(testResults)
        /\ outputDir \in cyDirs) =>
       /\ cyLast.written
       /\ SummaryCounts(cyFiles[cyReportHtml])
            = [passed |-> "1", total |-> "1", failed |-> "0"]
       /\ RenderedPassRate(cyFiles[cyReportHtml]) = <<"100">>

\* C14 witness: the three calls of the example, in a row: the suite was
\* built, the engine ran it and resolved with 1 test passed, the report
\* shows a pass rate of 100.
C14_Witness ==
  /\ calls = 3
  /\ specFiles = <<C14_Path>>
  /\ cyFiles[C14_Path] = testContent(arg.suite_Example, C14_Statements)
  /\ cyEngine = <<specFiles>>
  /\ C14_OnePassed(testResults)
  /\ cyLast.op = "generateReport"
  /\ cyLast.written
  /\ RenderedPassRate(cyFiles[cyReportHtml]) = <<"100">>

\* The report files among the files on disk.
ReportsIn(files, paths) == [p \in paths \cap DOMAIN files |-> files[p]]

\* C18: the script-generating agent writes report.json and report.html only
\* when its testResults is the result, with runs and not of a failed run, of
\* a runTests call that resolved; and the report of the route/viewport agent
\* is written by runTestWorkflow only when its runTests returned true.
C18_ReportOnlyAfterRun ==
  /\ [](testResults.kind = "results" => Len(cyEngine) >= 1)
  /\ []((cyLast.op = "generateReport"
           /\ (testResults.kind = "array" \/ testResults.message # <<>>)) =>
          ~cyLast.written)
  /\ [](rtLast.op = "runTestWorkflow" => (rtLast.reported => rtLast.success))
  /\ [][/\ ReportsIn(cyFiles', {cyReportJson, cyReportHtml})
             # ReportsIn(cyFiles, {cyReportJson, cyReportHtml}) =>
             /\ testResults.kind = "results"
             /\ testResults.hasRuns
             /\ testResults.message = <<>>
        /\ ReportsIn(rtFiles', {rtReportPath}) # ReportsIn(rtFiles, {rtReportPath}) =>
             /\ rtLast'.op = "runTestWorkflow"
             /\ rtLast'.success]_vars

\* C18 witness: generateReport was called after a run that failed, and wrote
\* nothing; the workflow of the route/viewport agent ran, its run failed, and
\* no report was written.
C18_Witness ==
  /\ cyLast.op = "generateReport"
  /\ testResults.kind = "results"
  /\ testResults.message # <<>>
  /\ ~cyLast.written
  /\ DOMAIN ReportsIn(cyFiles, {cyReportJson, cyReportHtml}) = {}
  /\ rtLast.op = "runTestWorkflow"
  /\ ~rtLast.success
  /\ rtReportPath \notin DOMAIN rtFiles

\* C19: testResults is a list in every state, and a buildTestSuite of
\* supported actions on an initialized agent succeeds and registers its file.
C19_TestResultsStaysAList ==
  /\ testResults.kind = "array"
  /\ (cyLast.op = "buildTestSuite" /\ E2eDir \in cyDirs
        /\ \A j \in 1..Len(cyLast.actions) : ~IsUnsupported(cyLast.actions[j])) =>
       /\ ~cyLast.result.threw
       /\ specFiles[Len(specFiles)] = cyLast.result.value

\* The suite of the example, built after a run resolved, fails on the push.
C19_BuildAfterRunFails ==
  /\ cyLast.op = "buildTestSuite"
  /\ cyLast.actions = ExampleActions
  /\ E2eDir \in cyDirs
  /\ Len(cyEngine) = 1
  /\ cyLast.result = Threw("TypeError", <<"this.testResults.push is not a function">>)
  /\ specFiles = <<>>

\* C20: specFiles only grows, by one path a step at most; a createTest,
\* generateAccessibilityTest or buildTestSuite call appends the path it
\* returns, and nothing when it fails; a runTests call hands the engine the
\* whole of specFiles, in order, and leaves it as it is.
C20_SpecFilesOnlyGrows ==
  [][/\ Len(specFiles') \in {Len(specFiles), Len(specFiles) + 1}
     /\ SubSeq(specFiles', 1, Len(specFiles)) = specFiles
     /\ (calls' # calls /\ rtEngine' = rtEngine
           /\ cyLast'.op \in {"createTest", "generateAccessibilityTest",
                              "buildTestSuite"}) =>
          IF cyLast'.result.threw THEN specFiles' = specFiles
          ELSE specFiles' = Append(specFiles, cyLast'.result.value)
     /\ (calls' # calls /\ rtEngine' = rtEngine
           /\ cyLast'.op \in {"runTests", "generateReport"}) =>
          specFiles' = specFiles
     /\ cyEngine' # cyEngine =>
          /\ cyEngine' = Append(cyEngine, specFiles)
          /\ specFiles' = specFiles]_vars

\* C20 witness: two suites whose names give the same file were created, and
\* the engine was handed the path twice.
C20_Witness ==
  /\ cyLast.op = "runTests"
  /\ specFiles = <<C14_Path, C14_Path>>
  /\ cyEngine = <<specFiles>>

\* A second runTests hands the engine the paths the first one ran already.
C20_RerunReached ==
  /\ Len(cyEngine) = 2
  /\ cyEngine[1] = <<C14_Path>>
  /\ cyEngine[2] = <<C14_Path>>

-----------------------------------------------------------------------------
(* Compiling assertions, one call after the other.                         *)

CompileElementTest ==
  /\ calls < MaxCompileCalls
  /\ \E selector \in {arg.sel_h1, arg.sel_a},
        testType \in SupportedKinds \cup {"hover"},
        expectedValue \in {Undefined, Str(arg.txt_href),
                           Str(arg.txt_href_query), Num(3)} :
       CyGenerateElementTest(selector, testType, expectedValue)

NextCompile == CyInitialize \/ CompileElementTest

SpecCompile == Init /\ [][NextCompile]_vars

\* Whether two compilations were of the same action.
SameAction(a, b) ==
  /\ a.selector = b.selector
  /\ a.testType = b.testType
  /\ a.expected.t = b.expected.t
  /\ a.expected = b.expected

C16_Target(url) ==
  IF Len(url) >= 4 /\ SubSeq(url, 1, 4) = <<"h", "t", "t", "p">> THEN url
  ELSE baseUrl \o url

\* C16: the statement generateNavigationAction emits for a navigation visits
\* the URL itself when it starts with 'http', else baseUrl followed by it.
C16_NavigationTarget ==
  (cyLast.op = "buildTestSuite" /\ cyLast.created) =>
    \A j \in 1..Len(cyLast.actions) :
      cyLast.actions[j].type = "navigate" =>
        cyLast.handed[cyLast.starts[j] + 1]
          = <<"cy.visit('">> \o C16_Target(cyLast.actions[j].url) \o <<"')">>

\* The part of C16 that holds of the emitted statement: a URL that starts
\* with 'http' is visited unchanged.
C16_AbsoluteUrlUnchanged ==
  (cyLast.op = "buildTestSuite" /\ cyLast.created) =>
    \A j \in 1..Len(cyLast.actions) :
      (cyLast.actions[j].type = "navigate"
         /\ cyLast.actions[j].url = arg.url_http) =>
        cyLast.handed[cyLast.starts[j] + 1]
          = <<"cy.visit('">> \o arg.url_http \o <<"')">>

C16_AbsoluteUrlReached ==
  /\ cyLast.op = "buildTestSuite"
  /\ cyLast.created
  /\ cyLast.actions = <<navigateTo(arg.url_http)>>

\* What follows the first '=' of a text.
C17_AfterFirstEquals(s) ==
  LET i == CHOOSE k \in 1..Len(s) : s[k] = "=" /\ \A m \in 1..(k - 1) : s[m] # "="
  IN SubSeq(s, i + 1, Len(s))

C17_BeforeFirstEquals(s) ==
  LET i == CHOOSE k \in 1..Len(s) : s[k] = "=" /\ \A m \in 1..(k - 1) : s[m] # "="
  IN SubSeq(s, 1, i - 1)

\* C17: the statement compiled for an attribute or cssProperty assertion
\* whose expected value is name=value checks the named attribute (property)
\* against all that follows the first '='.
C17_WholeValueCompared ==
  (cyLast.op = "generateElementTest"
     /\ cyLast.testType \in {"attribute", "cssProperty"}
     /\ cyLast.expectedValue.t = "string"
     /\ \E k \in 1..Len(cyLast.expectedValue.s) : cyLast.expectedValue.s[k] = "=") =>
    /\ ~cyLast.result.threw
    /\ cyLast.result.value =
         <<"cy.get('">> \o cyLast.selector
           \o <<IF cyLast.testType = "attribute" THEN "').should('have.attr', '"
                ELSE "').should('have.css', '">>
           \o C17_BeforeFirstEquals(cyLast.expectedValue.s) \o <<"', '">>
           \o C17_AfterFirstEquals(cyLast.expectedValue.s) \o <<"')">>

\* The part of C17 that holds: the same, for an expected value with one '='.
C17_SingleEqualsCompared ==
  (cyLast.op = "generateElementTest"
     /\ cyLast.testType \in {"attribute", "cssProperty"}
     /\ cyLast.expectedValue = Str(arg.txt_href)) =>
    cyLast.result.value =
      <<"cy.get('">> \o cyLast.selector
        \o <<IF cyLast.testType = "attribute" THEN "').should('have.attr', '"
             ELSE "').should('have.css', '">>
        \o <<"h", "r", "e", "f", "', '", "/", "a", "')">>

\* The direct-driver comparison of C17: when the page gives /a?x=1 for the
\* attribute, the assertion attribute href=/a?x=1 passes.
C17_DirectDriverWholeValue ==
  (pwLast.op = "testElement"
     /\ pwLast.testType = "attribute"
     /\ pwLast.expectedValue = Str(arg.txt_href_query)
     /\ ~pwLast.raised.threw
     /\ pwLast.raised.value.actualValue = Str(arg.txt_query)) =>
    pwLast.result = Returned(TRUE)

-----------------------------------------------------------------------------
(* From the names the generated tests give to the groups of the report.    *)

\* A run of the generated tests: the tests of the routes numbered in rs took
\* their page-loaded screenshot on the viewports numbered in vs.
NamingRun ==
  /\ calls < MaxShotCalls
  /\ \E rs \in SUBSET (1..Len(routes)), vs \in SUBSET (1..Len(viewports)) :
       LET all == Flatten([i \in 1..Len(routes) |->
                             [j \in 1..Len(viewports) |-> [r |-> i, v |-> j]]])
           taken == SelectSeq(all, LAMBDA p : p.r \in rs /\ p.v \in vs)
       IN /\ taken # <<>>
          /\ RtRunTests(TRUE,
                        [k \in 1..Len(taken) |->
                           pageLoadedShot(routeNameOf(routes[taken[k].r]),
                                          viewports[taken[k].v])])

NextNaming == RtConstructor \/ NamingRun \/ ShotsReport

SpecNaming == Init /\ [][NextNaming]_vars

\* Whether the run left the page-loaded screenshot of route i on viewport j.
C21_Taken(i, j) ==
  \E k \in 1..Len(rtShots) :
    rtShots[k] = pageLoadedShot(routeNameOf(routes[i]), viewports[j])

\* The route keys of the groups that hold the screenshots of route i.
C21_RouteKeys(i) ==
  {g[1] : g \in UNION {GroupsHolding(rtLast.reportData,
                                     pageLoadedShot(routeNameOf(routes[i]),
                                                    viewports[j])) :
                         j \in {j \in 1..Len(viewports) : C21_Taken(i, j)}}}

\* C21: generateReport files the screenshot the generated test of route R took
\* on viewport V under route key routeName(R) and viewport key V.name, and no
\* route key holds screenshots of two distinct configured routes, also when
\* routes and viewport names contain a hyphen.
C21_NamingRoundTrip ==
  rtLast.op = "generateReport" =>
    /\ ~rtLast.result.threw
    /\ \A i \in 1..Len(routes), j \in 1..Len(viewports) :
         C21_Taken(i, j) =>
           GroupsHolding(rtLast.reportData,
                         pageLoadedShot(routeNameOf(routes[i]), viewports[j]))
             = {<<routeNameOf(routes[i]), viewports[j]>>}
    /\ \A i1, i2 \in 1..Len(routes) :
         i1 # i2 => C21_RouteKeys(i1) \cap C21_RouteKeys(i2) = {}

\* Whether a text has a hyphen.
C21_Hyphenated(s) == \E k \in 1..Len(s) : s[k] = "-"

\* The part of C21 that holds: the round trip for the routes and viewport
\* names without a hyphen.
C21_HyphenFreeRoundTrip ==
  rtLast.op = "generateReport" =>
    /\ ~rtLast.result.threw
    /\ \A i \in 1..Len(routes), j \in 1..Len(viewports) :
         (C21_Taken(i, j) /\ ~C21_Hyphenated(routes[i])
            /\ ~C21_Hyphenated(viewports[j])) =>
           GroupsHolding(rtLast.reportData,
                         pageLoadedShot(routeNameOf(routes[i]), viewports[j]))
             = {<<routeNameOf(routes[i]), viewports[j]>>}

C21_HyphenFreeReached ==
  /\ rtLast.op = "generateReport"
  /\ C21_Taken(1, 1)
  /\ C21_Taken(2, 2)
  /\ rtLast.reportData[1].key = <<"h", "o", "m", "e">>

\* The screenshots of /a-b and of /a-c are both in the group of route key a.
C21_RoutesMergedReached ==
  /\ rtLast.op = "generateReport"
  /\ C21_Taken(3, 1)
  /\ C21_Taken(4, 1)
  /\ C21_RouteKeys(3) = {<<"a">>}
  /\ C21_RouteKeys(4) = {<<"a">>}

====
